---- MODULE Spec2Model ----
(***************************************************************************)
(* A model of the execution engine of rivet-cli: the variable context      *)
(* (runner/variables.rs), the request executor (runner/executor.rs) and    *)
(* the test runner (runner/test_runner.rs).                                *)
(*                                                                         *)
(* Text is modelled as a sequence of one-character strings, so that the    *)
(* two regular-expression passes of substitute_variables are computed      *)
(* character by character, as the regex crate computes them.               *)
(***************************************************************************)
EXTENDS Integers, Sequences, FiniteSets, TLC

VARIABLES
    \* ---- variable context (runner/variables.rs) ----
    vars,        \* VariableContext.vars : name -> value
    penv,        \* the process environment read by env::var
    subIn,       \* the text of the last substitute_variables call
    subOut,      \* what that call returned
    subPc,       \* "idle" before the first call, "done" after a call
    built,       \* the vars block with_config_vars merged, as declared and as iterated
    \* ---- one call of RequestExecutor::execute_test (runner/executor.rs) ----
    exCall,      \* the arguments: [name, request, expectation]
    exPc,        \* "ready", "sending" (send().await), "reading" (text().await), "done"
    exNet,       \* what the network has delivered so far
    exResults,   \* the TestResults the call has returned
    exTrace,     \* the checks validate_response made, in order
    \* ---- one run of TestRunner::run_tests (runner/test_runner.rs) ----
    cfg,         \* the TestRunner's fields and the suites load_test_suite returned
    run,         \* run_tests and the suite loop it delegates to
    task,        \* per suite: the run_single_suite future of that suite
    cur,         \* the suite whose future is being polled, 0 when all are pending
    fails,       \* the failing responses the network has delivered so far
    \* ---- the performance subsystem (performance/) ----
    build,       \* the build profile: whether integer overflow is checked
    metrics,     \* a PerformanceMetrics (performance/metrics.rs)
    perfResults, \* what the last calculate_results call did
    controller,  \* a LoadController and the time it is asked at (performance/patterns.rs)
    load,        \* one call of PerformanceTestRunner::generate_load (performance/runner.rs)
    \* ---- one call of PerformanceTestRunner::run_performance_test ----
    clock,       \* the time, in seconds
    prun,        \* the runner's fields and where run_performance_test is
    lock,        \* the tokio Mutex around the metrics: its holder and its waiters
    monitor,     \* the reporting task of start_background_monitoring
    wtask        \* per worker: the worker_task of that worker

substVars == <<vars, penv, subIn, subOut, subPc, built>>

execVars == <<exCall, exPc, exNet, exResults, exTrace>>

runnerVars == <<cfg, run, task, cur, fails>>

runVars == <<clock, prun, lock, monitor, wtask>>

perfVars ==
    <<build, metrics, perfResults, controller, load, clock, prun, lock, monitor, wtask>>

allVars ==
    <<vars, penv, subIn, subOut, subPc, built, exCall, exPc, exNet, exResults, exTrace,
      cfg, run, task, cur, fails, build, metrics, perfResults, controller,
      load, clock, prun, lock, monitor, wtask>>

---------------------------------------------------------------------------
(* Bounds of the model.                                                    *)

\* the largest number of bindings a modelled context holds
MaxBindings == 2

---------------------------------------------------------------------------
(* Text.                                                                   *)

\* the characters \w matches, among the characters the model uses
DigitChars == <<"0", "1", "2", "3", "4", "5", "6", "7", "8", "9">>

Digit == {DigitChars[i] : i \in 1..10}

WordChars == {"a", "b", "u", "i", "d", "X", "_"} \cup Digit

None == [none |-> TRUE]

Some(v) == [some |-> v]

IsSome(o) == "some" \in DOMAIN o

\* the last index of the longest run of characters of `set` in t that starts
\* at index i; i - 1 when t[i] is not in `set` (the run is empty)
RECURSIVE RunEnd(_, _, _)
RunEnd(t, i, set) ==
    IF i <= Len(t) /\ t[i] \in set THEN RunEnd(t, i + 1, set) ELSE i - 1

\* the same for the negated class [^...]: the longest run of characters that
\* are not in `excluded`
RECURSIVE RunEndNot(_, _, _)
RunEndNot(t, i, excluded) ==
    IF i <= Len(t) /\ t[i] \notin excluded THEN RunEndNot(t, i + 1, excluded) ELSE i - 1

CharAt(t, i) == IF i >= 1 /\ i <= Len(t) THEN t[i] ELSE ""

\* the end of a var_regex match that starts at i and whose \w+ run ends at j
VarMatchClose(t, i, j) ==
    IF j >= i + 2 /\ CharAt(t, j + 1) = "}" /\ CharAt(t, j + 2) = "}" THEN j + 2 ELSE 0

\* var_regex \{\{(\w+)\}\} tried at index i: the index of the last character
\* of the match, 0 when there is no match starting at i
VarMatchEnd(t, i) ==
    IF CharAt(t, i) = "{" /\ CharAt(t, i + 1) = "{"
    THEN VarMatchClose(t, i, RunEnd(t, i + 2, WordChars))
    ELSE 0

\* a replacement closure that drops an unbound placeholder instead of
\* rebuilding it
VarReplacementDropsUnbound(name, ctx) ==
    IF name \in DOMAIN ctx THEN ctx[name] ELSE <<>>

\* the closure of the first replace_all: the bound value, or the original
\* placeholder rebuilt by format!("{{{{{}}}}}", var_name)
VarReplacement(name, ctx) ==
    IF name \in DOMAIN ctx THEN ctx[name] ELSE <<"{", "{">> \o name \o <<"}", "}">>

\* var_regex.replace_all from index i on, m the end of the match tried at i:
\* leftmost non-overlapping matches, one pass; the replacement text is not
\* scanned again
RECURSIVE VarPass(_, _, _)
VarPassAt(t, i, m, ctx) ==
    IF m = 0 THEN <<t[i]>> \o VarPass(t, i + 1, ctx)
    ELSE VarReplacement(SubSeq(t, i + 2, m - 2), ctx) \o VarPass(t, m + 1, ctx)

VarPass(t, i, ctx) ==
    IF i > Len(t) THEN <<>> ELSE VarPassAt(t, i, VarMatchEnd(t, i), ctx)

NoMatch == [end |-> 0, name |-> <<>>, default |-> <<>>]

\* the optional group (?::([^}]*))? and the closing brace, the name being
\* t[i+2..j] and the default t[j+2..k]
EnvMatchDefault(t, i, j, k) ==
    IF CharAt(t, k + 1) = "}"
    THEN [end |-> k + 1, name |-> SubSeq(t, i + 2, j), default |-> SubSeq(t, j + 2, k)]
    ELSE NoMatch

\* what follows the name t[i+2..j] of an env_regex match
EnvMatchName(t, i, j) ==
    IF j < i + 2 THEN NoMatch
    ELSE IF CharAt(t, j + 1) = "}"
         THEN [end |-> j + 1, name |-> SubSeq(t, i + 2, j), default |-> <<>>]
    ELSE IF CharAt(t, j + 1) = ":"
         THEN EnvMatchDefault(t, i, j, RunEndNot(t, j + 2, {"}"}))
    ELSE NoMatch

\* env_regex \$\{([^:}]+)(?::([^}]*))?\} tried at index i: a record
\* [end, name, default] of the match, end = 0 when there is none. The default
\* is "" when the optional group did not take part
EnvMatch(t, i) ==
    IF CharAt(t, i) = "$" /\ CharAt(t, i + 1) = "{"
    THEN EnvMatchName(t, i, RunEndNot(t, i + 2, {":", "}"}))
    ELSE NoMatch

\* a closure that asks the context before the process environment
EnvReplacementContextFirst(name, default, ctx, env) ==
    IF name \in DOMAIN ctx THEN ctx[name]
    ELSE IF name \in DOMAIN env THEN env[name]
    ELSE default

\* the closure of the second replace_all: env::var(name), else the context's
\* binding, else the default
EnvReplacement(name, default, ctx, env) ==
    IF name \in DOMAIN env THEN env[name]
    ELSE IF name \in DOMAIN ctx THEN ctx[name]
    ELSE default

\* env_regex.replace_all from index i on, m the match tried at i
RECURSIVE EnvPass(_, _, _, _)
EnvPassAt(t, i, m, ctx, env) ==
    IF m.end = 0 THEN <<t[i]>> \o EnvPass(t, i + 1, ctx, env)
    ELSE EnvReplacement(m.name, m.default, ctx, env) \o EnvPass(t, m.end + 1, ctx, env)

EnvPass(t, i, ctx, env) ==
    IF i > Len(t) THEN <<>> ELSE EnvPassAt(t, i, EnvMatch(t, i), ctx, env)

\* a substitution that runs the environment-style pass before the
\* variable-style pass
substitute_variablesEnvFirst(text, ctx, env) ==
    VarPass(EnvPass(text, 1, ctx, env), 1, ctx)

\* VariableContext::substitute_variables
substitute_variables(text, ctx, env) ==
    EnvPass(VarPass(text, 1, ctx), 1, ctx, env)

---------------------------------------------------------------------------
(* Numbers in text: str::parse and Display.                                *)

DigitVal(c) == (CHOOSE i \in 1..10 : DigitChars[i] = c) - 1

AllDigits(t) == t # <<>> /\ \A i \in 1..Len(t) : t[i] \in Digit

\* the value of the first n characters of a text of digits
RECURSIVE DigitsValue(_, _)
DigitsValue(t, n) ==
    IF n = 0 THEN 0 ELSE DigitsValue(t, n - 1) * 10 + DigitVal(t[n])

\* the longest text of digits the model parses (TLC's integers are 32 bits)
MaxDigits == 6

U16Max == 65535

\* the sign "+" that the unsigned parsers of str::parse accept and skip
StripPlus(t) == IF t # <<>> /\ t[1] = "+" THEN Tail(t) ELSE t

\* the value of a text of digits; None for the empty text and for any other
\* character
UnsignedValue(body) ==
    IF ~AllDigits(body) \/ Len(body) > MaxDigits THEN None
    ELSE Some(DigitsValue(body, Len(body)))

\* PosOverflow of u16
CheckU16(v) == IF IsSome(v) /\ v.some > U16Max THEN None ELSE v

\* str::parse::<u16>: an optional "+", then digits, no overflow
ParseU16(t) == CheckU16(UnsignedValue(StripPlus(t)))

\* str::parse::<usize>, on the short texts of the model
ParseUsize(t) == UnsignedValue(StripPlus(t))

SignedValue(sign, v) == IF IsSome(v) /\ sign = "-" THEN Some(0 - v.some) ELSE v

\* str::parse::<i64>, on the short texts of the model
ParseI64(t) ==
    IF t # <<>> /\ t[1] \in {"+", "-"} THEN SignedValue(t[1], UnsignedValue(Tail(t)))
    ELSE UnsignedValue(t)

\* str::parse::<bool>; the tokens "true" and "false" stand for those words
ParseBool(t) ==
    IF t = <<"true">> THEN Some(TRUE)
    ELSE IF t = <<"false">> THEN Some(FALSE)
    ELSE None

\* Display of an unsigned integer: its decimal digits
RECURSIVE Decimal(_)
Decimal(n) ==
    IF n < 10 THEN <<DigitChars[n + 1]>>
    ELSE Decimal(n \div 10) \o <<DigitChars[(n % 10) + 1]>>

\* text `sub` occurs in text t (str::contains)
Contains(t, sub) ==
    \E i \in 1..(Len(t) - Len(sub) + 1) : SubSeq(t, i, i + Len(sub) - 1) = sub

StartsWith(t, prefix) ==
    Len(t) >= Len(prefix) /\ SubSeq(t, 1, Len(prefix)) = prefix

\* str::find(c): the index of the first c in t, 0 when there is none
Find(t, c) ==
    IF \E i \in 1..Len(t) : t[i] = c
    THEN CHOOSE i \in 1..Len(t) : t[i] = c /\ \A j \in 1..(i - 1) : t[j] # c
    ELSE 0

\* str::split(c): the pieces of t between the occurrences of c
RECURSIVE Split(_, _)
SplitAt(t, c, i) ==
    IF i = 0 THEN <<t>>
    ELSE <<SubSeq(t, 1, i - 1)>> \o Split(SubSeq(t, i + 1, Len(t)), c)

Split(t, c) == SplitAt(t, c, Find(t, c))

---------------------------------------------------------------------------
(* JSON values (serde_json::Value) and the JSONPath subset.                *)

JNum(n) == [t |-> "num", n |-> n]

JStr(s) == [t |-> "str", s |-> s]

JBool(b) == [t |-> "bool", b |-> b]

JObj(f) == [t |-> "obj", f |-> f]

JArr(a) == [t |-> "arr", a |-> a]

Ok(v) == [ok |-> TRUE, val |-> v]

Err(e) == [ok |-> FALSE, err |-> e]

\* Value::get(&str): a field of an object, nothing of any other value
GetField(json, field) ==
    IF json.t = "obj" /\ field \in DOMAIN json.f THEN Some(json.f[field]) ELSE None

\* Value::get(usize): an element of an array (from 0), nothing otherwise
GetIndex(json, index) ==
    IF json.t = "arr" /\ index + 1 <= Len(json.a) THEN Some(json.a[index + 1]) ELSE None

FieldNotFound(field) == <<"Field '">> \o field \o <<"' not found in JSON">>

IndexNotFound(index) == <<"Array index ">> \o Decimal(index) \o <<" not found">>

InvalidIndex(text) == <<"Invalid array index: ">> \o text

\* current.get(index).ok_or_else(..) on the element found or not
ElementOr(element, index) ==
    IF IsSome(element) THEN Ok(element.some) ELSE Err(IndexNotFound(index))

\* index_str.parse()?, then current.get(index) on `base`
IndexInto(base, index_str, index) ==
    IF ~IsSome(index) THEN Err(InvalidIndex(index_str))
    ELSE ElementOr(GetIndex(base, index.some), index.some)

\* "field[i]" and "[i]": the field if it is named, then the index
FieldThenIndex(base, field, index_str) ==
    IF ~IsSome(base) THEN Err(FieldNotFound(field))
    ELSE IndexInto(base.some, index_str, ParseUsize(index_str))

FieldOr(value, field) ==
    IF IsSome(value) THEN Ok(value.some) ELSE Err(FieldNotFound(field))

\* part = field "[" index_str "]", `open` the index of the first "["
ExtractIndexed(current, part, open) ==
    FieldThenIndex(IF open > 1 THEN GetField(current, SubSeq(part, 1, open - 1))
                   ELSE Some(current),
                   SubSeq(part, 1, open - 1),
                   SubSeq(part, open + 1, Len(part) - 1))

\* one part of a dotted path applied to `current`: "field", "field[i]", "[i]"
ExtractPart(current, part) ==
    IF Contains(part, <<"[">>) /\ part[Len(part)] = "]"
    THEN ExtractIndexed(current, part, Find(part, "["))
    ELSE FieldOr(GetField(current, part), part)

\* the loop over the parts, skipping the empty ones; r is what the k-th part
\* gave
RECURSIVE ExtractParts(_, _, _)
ExtractRest(r, parts, k) == IF r.ok THEN ExtractParts(r.val, parts, k + 1) ELSE r

ExtractParts(current, parts, k) ==
    IF k > Len(parts) THEN Ok(current)
    ELSE IF parts[k] = <<>> THEN ExtractParts(current, parts, k + 1)
    ELSE ExtractRest(ExtractPart(current, parts[k]), parts, k)

\* the path without its prefix "$.", if it has one
StripRoot(path) ==
    IF StartsWith(path, <<"$", ".">>) THEN SubSeq(path, 3, Len(path)) ELSE path

\* RequestExecutor::extract_jsonpath_value
RECURSIVE extract_jsonpath_value(_, _)
\* after "$[i]": the rest of the path if it starts with ".", else the element
ExtractAfterRoot(element, remaining_path) ==
    IF ~element.ok THEN element
    ELSE IF StartsWith(remaining_path, <<".">>)
         THEN extract_jsonpath_value(element.val, Tail(remaining_path))
    ELSE element

\* a path "$[" ... "]" ...: `remaining` is the path without "$", bracket_end
\* the index of its first "]"
ExtractRootIndex(json, remaining, bracket_end) ==
    ExtractAfterRoot(IndexInto(json, SubSeq(remaining, 2, bracket_end - 1),
                               ParseUsize(SubSeq(remaining, 2, bracket_end - 1))),
                     SubSeq(remaining, bracket_end + 1, Len(remaining)))

extract_jsonpath_value(json, path) ==
    IF StartsWith(path, <<"$", "[">>) /\ Find(Tail(path), "]") # 0
    THEN ExtractRootIndex(json, Tail(path), Find(Tail(path), "]"))
    ELSE ExtractParts(json, Split(StripRoot(path), "."), 1)

---------------------------------------------------------------------------
(* The request executor (runner/executor.rs).                              *)

\* the printable ASCII characters a string of this module can hold, in the
\* order of their codes
Ascii ==
    <<" ", "!", "\"", "#", "$", "%", "&", "'", "(", ")", "*", "+", ",", "-", ".", "/",
      "0", "1", "2", "3", "4", "5", "6", "7", "8", "9", ":", ";", "<", "=", ">", "?",
      "@", "A", "B", "C", "D", "E", "F", "G", "H", "I", "J", "K", "L", "M", "N", "O",
      "P", "Q", "R", "S", "T", "U", "V", "W", "X", "Y", "Z", "[", "\\", "]", "^", "_",
      "a", "b", "c", "d", "e", "f", "g", "h", "i", "j", "k", "l", "m", "n", "o",
      "p", "q", "r", "s", "t", "u", "v", "w", "x", "y", "z", "{", "|", "}", "~">>

\* the place of character c in Ascii
CharRank(c) == CHOOSE i \in DOMAIN Ascii : Ascii[i] = c

\* `a < b` on two strings: the order of the keys of a serde_json Map (a
\* BTreeMap<String, Value>)
RECURSIVE KeyLess(_, _)
KeyLess(a, b) ==
    IF a = <<>> THEN b # <<>>
    ELSE IF b = <<>> THEN FALSE
    ELSE IF a[1] = b[1] THEN KeyLess(Tail(a), Tail(b))
    ELSE CharRank(a[1]) < CharRank(b[1])

\* the first of the keys S
MinKey(S) == CHOOSE k \in S : \A j \in S \ {k} : KeyLess(k, j)

\* the keys S in the order the Map iterates in
RECURSIVE SortedKeys(_)
SortedKeys(S) ==
    IF S = {} THEN <<>> ELSE <<MinKey(S)>> \o SortedKeys(S \ {MinKey(S)})

\* {:?} of one character of a str: char::escape_debug
EscapeChar(c) ==
    CASE c = "\"" -> <<"\\", "\"">>
      [] c = "\\" -> <<"\\", "\\">>
      [] c = "\n" -> <<"\\", "n">>
      [] c = "\r" -> <<"\\", "r">>
      [] c = "\t" -> <<"\\", "t">>
      [] OTHER -> <<c>>

\* {:?} of a str, without its quotes
RECURSIVE EscapeDebug(_)
EscapeDebug(s) ==
    IF s = <<>> THEN <<>> ELSE EscapeChar(s[1]) \o EscapeDebug(Tail(s))

\* {:?} of a serde_json::Value: `Number(1)`, `String("a")`, `Bool(true)`,
\* `Array [Number(1), Number(2)]`, `Object {"id": String("a")}`
RECURSIVE DebugValue(_)
RECURSIVE DebugElements(_, _)
RECURSIVE DebugEntries(_, _, _)
DebugValue(v) ==
    CASE v.t = "num" -> <<"Number(">>
                           \o (IF v.n < 0 THEN <<"-">> \o Decimal(0 - v.n) ELSE Decimal(v.n))
                           \o <<")">>
      [] v.t = "str" -> <<"String(\"">> \o EscapeDebug(v.s) \o <<"\")">>
      [] v.t = "bool" -> <<"Bool(", IF v.b THEN "true" ELSE "false", ")">>
      [] v.t = "obj" -> <<"Object {">> \o DebugEntries(v.f, SortedKeys(DOMAIN v.f), 1)
                           \o <<"}">>
      [] v.t = "arr" -> <<"Array [">> \o DebugElements(v.a, 1) \o <<"]">>

\* the elements of a Vec<Value> from the i-th on, `, ` between them
DebugElements(a, i) ==
    IF i > Len(a) THEN <<>>
    ELSE DebugValue(a[i]) \o (IF i < Len(a) THEN <<", ">> ELSE <<>>)
            \o DebugElements(a, i + 1)

\* the entries of a Map from the i-th key on, as `"key": value`
DebugEntries(f, keys, i) ==
    IF i > Len(keys) THEN <<>>
    ELSE <<"\"">> \o EscapeDebug(keys[i]) \o <<"\": ">> \o DebugValue(f[keys[i]])
            \o (IF i < Len(keys) THEN <<", ">> ELSE <<>>)
            \o DebugEntries(f, keys, i + 1)

\* a substituted string read as an integer, else as a boolean, else kept
CoerceParsed(num, bool, substituted) ==
    IF IsSome(num) THEN JNum(num.some)
    ELSE IF IsSome(bool) THEN JBool(bool.some)
    ELSE JStr(substituted)

CoerceText(substituted) ==
    CoerceParsed(ParseI64(substituted), ParseBool(substituted), substituted)

\* the expected value a JSONPath assertion compares with: a string is
\* substituted and coerced, any other value is taken as it is
CoerceExpected(expected, ctx, env) ==
    IF expected.t = "str" THEN CoerceText(substitute_variables(expected.s, ctx, env))
    ELSE expected

\* the comparison of validate_jsonpath, `actual` being what the path gave
CompareValues(actual, expected_value, path) ==
    IF ~actual.ok THEN actual
    ELSE IF actual.val # expected_value
         THEN Err(<<"JSONPath assertion failed for '">> \o path \o <<"': expected ">>
                  \o DebugValue(expected_value) \o <<" but got ">>
                  \o DebugValue(actual.val))
    ELSE Ok(TRUE)

\* RequestExecutor::validate_jsonpath: Ok, or Err with the error text
validate_jsonpath(json, path, expected, ctx, env) ==
    CompareValues(extract_jsonpath_value(json, path),
                  CoerceExpected(expected, ctx, env), path)

\* an assertion loop that goes on after a failure: every assertion is
\* evaluated, and the error of the last failing one is returned
AfterAssertionGoOn(r, path, rest) ==
    [err |-> IF IsSome(rest.err) \/ r.ok THEN rest.err ELSE Some(r.err),
     trace |-> <<path>> \o rest.trace]

\* one turn of the loop: `?` returns the error of r, else the loop goes on
\* with `rest`
AfterAssertion(r, path, rest) ==
    IF ~r.ok THEN [err |-> Some(r.err), trace |-> <<path>>]
    ELSE [err |-> rest.err, trace |-> <<path>> \o rest.trace]

\* the loop `for (path, expected_value) in jsonpath_assertions { ...? }` over
\* the map in the iteration order `order`, from its k-th element on. The
\* trace lists the assertions the loop evaluated
RECURSIVE ValidateAssertions(_, _, _, _, _, _)
ValidateAssertions(json, assertions, order, k, ctx, env) ==
    IF k > Len(order) THEN [err |-> None, trace |-> <<>>]
    ELSE AfterAssertion(validate_jsonpath(json, order[k], assertions[order[k]], ctx, env),
                        order[k],
                        ValidateAssertions(json, assertions, order, k + 1, ctx, env))

\* the entries of a validation trace that are not JSONPath assertions
StatusCheck == <<"status">>

JsonCheck == <<"json">>

\* the code a substituted status string parses to, with the string
ParsedStatus(substituted) == [code |-> ParseU16(substituted), text |-> substituted]

\* the status expectation resolved: Number(code), or String(code_str)
\* substituted and parsed
ResolveStatus(expected_status, ctx, env) ==
    IF "num" \in DOMAIN expected_status
    THEN [code |-> Some(expected_status.num), text |-> <<>>]
    ELSE ParsedStatus(substitute_variables(expected_status.str, ctx, env))

\* the two failures of the status block
CheckStatus(status, resolved) ==
    IF ~IsSome(resolved.code)
    THEN [err |-> Some(<<"Invalid status code: ">> \o resolved.text),
          trace |-> <<StatusCheck>>]
    ELSE IF status # resolved.code.some
         THEN [err |-> Some(<<"Expected status ">> \o Decimal(resolved.code.some)
                            \o <<" but got ">> \o Decimal(status)),
               trace |-> <<StatusCheck>>]
    ELSE [err |-> None, trace |-> <<StatusCheck>>]

\* the first block of validate_response: the status expectation
ValidateStatus(status, expectation, ctx, env) ==
    IF ~IsSome(expectation.status) THEN [err |-> None, trace |-> <<>>]
    ELSE CheckStatus(status, ResolveStatus(expectation.status.some, ctx, env))

\* two blocks of checks in sequence: the second runs if the first passed
FirstFailure(first, second) ==
    IF IsSome(first.err) THEN first
    ELSE [err |-> second.err, trace |-> first.trace \o second.trace]

\* the second block of validate_response: the body as JSON, then the assertions
ValidateJson(body, expectation, order, ctx, env) ==
    IF ~IsSome(expectation.jsonpath) THEN [err |-> None, trace |-> <<>>]
    ELSE IF ~body.json
         THEN [err |-> Some(<<"Response body is not valid JSON">>), trace |-> <<JsonCheck>>]
    ELSE FirstFailure([err |-> None, trace |-> <<JsonCheck>>],
                      ValidateAssertions(body.value, expectation.jsonpath.some, order, 1,
                                         ctx, env))

\* a validate_response that evaluates the JSONPath assertions before the status
ValidateJsonFirst(status, body, expectation, order, ctx, env) ==
    FirstFailure(ValidateJson(body, expectation, order, ctx, env),
                 ValidateStatus(status, expectation, ctx, env))

\* RequestExecutor::validate_response: [err, trace], err the Err of the Result
\* (None for Ok(())), trace the checks made in the order they were made
validate_response(status, body, expectation, order, ctx, env) ==
    FirstFailure(ValidateStatus(status, expectation, ctx, env),
                 ValidateJson(body, expectation, order, ctx, env))

\* Url::parse of the substituted text: the model's absolute URLs start with
\* the token "http://h/"; anything else is a relative URL without a base
UrlParses(url_str) == url_str # <<>> /\ url_str[1] = "http://h/"

\* str::parse::<Method>: a method is a token; the empty text and a text with
\* a space are not
MethodParses(method) == method \notin {"", "GE T"}

\* Url::parse(&url_str)?, then request.method.parse::<Method>()?
ParseRequest(url_str, method) ==
    IF ~UrlParses(url_str) THEN Err(<<"Invalid URL: ">> \o url_str)
    ELSE IF ~MethodParses(method) THEN Err(<<"Invalid HTTP method: ", method>>)
    ELSE Ok(url_str)

\* execute_request up to req_builder.send(): Ok, or the Err that `?` returns
PrepareRequest(request, ctx, env) ==
    ParseRequest(substitute_variables(request.url, ctx, env), request.method)

\* req_builder.send().await on a prepared request. net.transport is "error"
\* when send() failed (connection, timeout, a header the builder rejected),
\* "response" when a response arrived with net.status
SendPrepared(prepared, net) ==
    IF ~prepared.ok THEN prepared
    ELSE IF net.transport = "error" THEN Err(<<"Failed to send HTTP request">>)
    ELSE Ok(net.status)

\* RequestExecutor::execute_request
execute_request(request, ctx, env, net) ==
    SendPrepared(PrepareRequest(request, ctx, env), net)

TestResult(name, passed, error, response_status, response_body) ==
    [name |-> name, passed |-> passed, error |-> error,
     response_status |-> response_status, response_body |-> response_body]

\* `passed: status < 400` of the branch without an expectation
NoExpectationPassed(status) == status < 400

\* a transport failure reported with a status of 0 instead of none
TransportFailureStatusZero == Some(0)

\* `response_status: None` of the Err branch of execute_request
TransportFailureStatus == None

\* the two TestResults of the branch with an expectation
ValidatedResult(name, status, body, v) ==
    TestResult(name, ~IsSome(v.err), v.err, Some(status), body)

\* the match of execute_test on `response`, what execute_request returned.
\* net.body is None when response.text() failed, net.order the order the
\* jsonpath map iterates in
ResultOf(name, response, expectation, ctx, env, net) ==
    IF ~response.ok
    THEN TestResult(name, FALSE, Some(response.err), TransportFailureStatus, None)
    ELSE IF ~IsSome(net.body)
         THEN TestResult(name, FALSE, Some(<<"Failed to read response body: ", "io">>),
                         Some(response.val), None)
    ELSE IF IsSome(expectation)
         THEN ValidatedResult(name, response.val, net.body,
                              validate_response(response.val, net.body.some,
                                                expectation.some, net.order, ctx, env))
    ELSE TestResult(name, NoExpectationPassed(response.val),
                    IF response.val >= 400 THEN Some(<<"HTTP ">> \o Decimal(response.val))
                    ELSE None,
                    Some(response.val), net.body)

\* RequestExecutor::execute_test
execute_test(name, request, expectation, ctx, env, net) ==
    ResultOf(name, execute_request(request, ctx, env, net), expectation, ctx, env, net)

---------------------------------------------------------------------------
(* The inputs of the variable-context specification.                       *)

\* variable names: words, and one name that \w+ does not match
Names == {<<"a">>, <<"b">>, <<"a", "-", "b">>}

\* bound values: plain text, text holding an environment-style placeholder,
\* text holding a variable-style placeholder
Values == {<<"2", "0", "0">>,
           <<"$", "{", "X", ":", "4", "}">>,
           <<"{", "{", "b", "}", "}">>}

EnvNames == {<<"X">>, <<"a">>}

EnvValues == {<<"0">>, <<"{", "{", "b", "}", "}">>}

\* "{{name}}"
VarPlaceholder(name) == <<"{", "{">> \o name \o <<"}", "}">>

\* a name that is itself an environment-style placeholder
PlaceholderNames == {<<"$", "{", "X", ":", "4", "}">>}

Texts == {VarPlaceholder(n) : n \in Names \cup PlaceholderNames}

\* "${name}" and "${name:default}"
EnvPlaceholder(name, default) ==
    <<"$", "{">> \o name \o (IF IsSome(default) THEN <<":">> \o default.some ELSE <<>>)
        \o <<"}">>

\* the defaults of the modelled placeholders: none, the empty one, "4"
Defaults == {None, Some(<<>>), Some(<<"4">>)}

EnvTexts == {EnvPlaceholder(n, d) : n \in Names \cup EnvNames, d \in Defaults}

PartialMaps(D, R) == UNION {[S -> R] : S \in SUBSET D}

EmptyMap == [x \in {} |-> <<>>]

\* VariableContext::set / set_variable
set(ctx, key, value) ==
    [k \in DOMAIN ctx \cup {key} |-> IF k = key THEN value ELSE ctx[k]]

\* no substitute_variables call is modelled
SubstOff ==
    /\ subIn = <<>>
    /\ subOut = <<>>
    /\ subPc = "off"
    /\ built = None

\* no execute_test call is modelled
ExecOff ==
    /\ exCall = None
    /\ exPc = "off"
    /\ exNet = None
    /\ exResults = <<>>
    /\ exTrace = <<>>

\* no run of run_tests is modelled
RunnerOff ==
    /\ cfg = None
    /\ run = None
    /\ task = <<>>
    /\ cur = 0
    /\ fails = 0

\* no part of the performance subsystem is modelled
PerfOff ==
    /\ build = None
    /\ metrics = None
    /\ perfResults = None
    /\ controller = None
    /\ load = None
    /\ clock = 0
    /\ prun = None
    /\ lock = None
    /\ monitor = None
    /\ wtask = <<>>

\* no call of run_performance_test is modelled
RunOff ==
    /\ clock = 0
    /\ prun = None
    /\ lock = None
    /\ monitor = None
    /\ wtask = <<>>

\* VariableContext::new() in some process environment
InitSubst ==
    /\ vars = EmptyMap
    /\ penv \in {e \in PartialMaps(EnvNames, EnvValues) : Cardinality(DOMAIN e) <= 1}
    /\ subIn = <<>>
    /\ subOut = <<>>
    /\ subPc = "idle"
    /\ built = None
    /\ ExecOff
    /\ RunnerOff
    /\ PerfOff

\* ctx.set(key, value)
Set(key, value) ==
    /\ subPc \in {"idle", "done"}
    /\ Cardinality(DOMAIN vars \cup {key}) <= MaxBindings
    /\ vars' = set(vars, key, value)
    /\ subPc' = "idle"
    /\ subIn' = <<>>
    /\ subOut' = <<>>
    /\ UNCHANGED <<penv, built, execVars, runnerVars, perfVars>>

\* ctx.substitute_variables(text)
Substitute(text) ==
    /\ subPc \in {"idle", "done"}
    /\ subIn' = text
    /\ subOut' = substitute_variables(text, vars, penv)
    /\ subPc' = "done"
    /\ UNCHANGED <<vars, penv, built, execVars, runnerVars, perfVars>>

NextSubst ==
    \/ \E k \in Names \cup PlaceholderNames, v \in Values : Set(k, v)
    \/ \E t \in Texts \cup EnvTexts : Substitute(t)

SpecSubst == InitSubst /\ [][NextSubst]_allVars

---------------------------------------------------------------------------
(* Claims about the variable context.                                      *)

\* the name inside a "{{name}}" text
PlaceholderName(text) == SubSeq(text, 3, Len(text) - 2)

IsWordName(name) == name # <<>> /\ \A i \in 1..Len(name) : name[i] \in WordChars

\* text holds an environment-style placeholder the second pass would replace
HasEnvPlaceholder(text) == \E i \in 1..Len(text) : EnvMatch(text, i).end # 0

\* a call substitute_variables("{{name}}") has returned
SubstitutedPlaceholder == subPc = "done" /\ subIn \in Texts

\* C10 as written: substitute_variables("{{name}}") is the bound value for
\* every bound name, and the input text for every name that is not bound.
C10_AsWritten ==
    SubstitutedPlaceholder =>
        LET name == PlaceholderName(subIn) IN
        IF name \in DOMAIN vars THEN subOut = vars[name] ELSE subOut = subIn

\* the name holds none of the characters of a placeholder
IsPlainName(name) == \A i \in 1..Len(name) : name[i] \notin {"{", "}", "$"}

\* C10 amended: for a bound name made of word characters the call returns the
\* bound value after the environment-style pass has run over it, hence the
\* bound value itself when that value holds no ${...} placeholder; for a name
\* that is not bound, and for a bound name \w+ does not match, it returns the
\* input text unchanged when the name holds none of the characters {, } and
\* $; a name that holds a placeholder is rewritten with the rest of the
\* text: "{{${X:4}}}" comes back as "{{4}}" when X is neither set in the
\* environment nor bound.
C10_SubstituteBoundOrUnchanged ==
    SubstitutedPlaceholder =>
        LET name == PlaceholderName(subIn) IN
        IF name \in DOMAIN vars /\ IsWordName(name)
        THEN /\ subOut = EnvPass(vars[name], 1, vars, penv)
             /\ (~HasEnvPlaceholder(vars[name]) => subOut = vars[name])
        ELSE /\ IsPlainName(name) => subOut = subIn
             /\ (/\ name = EnvPlaceholder(<<"X">>, Some(<<"4">>))
                 /\ <<"X">> \notin DOMAIN penv
                 /\ <<"X">> \notin DOMAIN vars)
                   => subOut = VarPlaceholder(<<"4">>)

\* a bound word name was substituted by its value
C10_Witness ==
    /\ SubstitutedPlaceholder
    /\ PlaceholderName(subIn) \in DOMAIN vars
    /\ IsWordName(PlaceholderName(subIn))
    /\ ~HasEnvPlaceholder(vars[PlaceholderName(subIn)])
    /\ subOut = vars[PlaceholderName(subIn)]

\* a word name that is not bound was substituted while another name is
\* bound: the text came back as it was
C10_UnboundUnchanged ==
    /\ SubstitutedPlaceholder
    /\ IsWordName(PlaceholderName(subIn))
    /\ PlaceholderName(subIn) \notin DOMAIN vars
    /\ vars # EmptyMap
    /\ subOut = subIn

\* the unbound name ${X:4} was substituted: the text came back as "{{4}}"
C10_PlaceholderNameRewritten ==
    /\ SubstitutedPlaceholder
    /\ PlaceholderName(subIn) \in PlaceholderNames
    /\ PlaceholderName(subIn) \notin DOMAIN vars
    /\ subOut = VarPlaceholder(<<"4">>)
    /\ subOut # subIn

\* the default text of a placeholder: empty when none is given
DefaultText(default) == IF IsSome(default) THEN default.some ELSE <<>>

\* a call substitute_variables("${name:default}") has returned
SubstitutedEnv(name, default) == subPc = "done" /\ subIn = EnvPlaceholder(name, default)

\* C11: "${X:d}" resolves by strict priority: the process-environment value
\* of X when X is set there, whatever d and the context hold; otherwise the
\* context's binding of X; otherwise the default d, the empty text when no
\* default is given.
C11_EnvPriority ==
    \A name \in Names \cup EnvNames, default \in Defaults :
        SubstitutedEnv(name, default) =>
            /\ name \in DOMAIN penv => subOut = penv[name]
            /\ (name \notin DOMAIN penv /\ name \in DOMAIN vars) => subOut = vars[name]
            /\ (name \notin DOMAIN penv /\ name \notin DOMAIN vars)
                  => subOut = DefaultText(default)

\* "${a:4}" was substituted with a set in the environment and bound, to
\* another value, in the context
C11_Witness ==
    /\ SubstitutedEnv(<<"a">>, Some(<<"4">>))
    /\ <<"a">> \in DOMAIN penv
    /\ <<"a">> \in DOMAIN vars
    /\ vars[<<"a">>] # penv[<<"a">>]
    /\ subOut = penv[<<"a">>]

\* what the priority of C11 gives for "${name:default}" in the current state
EnvResolution(name, default) ==
    IF name \in DOMAIN penv THEN penv[name]
    ELSE IF name \in DOMAIN vars THEN vars[name]
    ELSE DefaultText(default)

\* a call substitute_variables("{{name}}") on a bound word name has returned
SubstitutedBound(name) ==
    /\ subPc = "done"
    /\ subIn = VarPlaceholder(name)
    /\ name \in DOMAIN vars
    /\ IsWordName(name)

\* C12: the {{var}} pass runs first and the ${ENV:default} pass second, each
\* once. A "${m:d}" that the expansion of "{{name}}" introduced is resolved
\* in the same call, and a "{{k}}" that the expansion introduced is not
\* expanded again; a "{{k}}" or a "${m:d}" that the resolution of
\* "${name:default}" introduced is left literally in the output, k bound or
\* not.
C12_VarPassThenEnvPass ==
    /\ \A name \in Names :
          SubstitutedBound(name) =>
              /\ \A m \in Names \cup EnvNames, d \in Defaults :
                    vars[name] = EnvPlaceholder(m, d) => subOut = EnvResolution(m, d)
              /\ \A k \in Names :
                    vars[name] = VarPlaceholder(k) => subOut = VarPlaceholder(k)
    /\ \A name \in Names \cup EnvNames, default \in Defaults :
          SubstitutedEnv(name, default) =>
              /\ \A k \in Names :
                    EnvResolution(name, default) = VarPlaceholder(k)
                        => subOut = VarPlaceholder(k)
              /\ \A m \in Names \cup EnvNames, d \in Defaults :
                    EnvResolution(name, default) = EnvPlaceholder(m, d)
                        => subOut = EnvPlaceholder(m, d)

\* "${a}" was substituted with a bound to "{{b}}" and b bound: the output is
\* the literal "{{b}}"
C12_Witness ==
    /\ SubstitutedEnv(<<"a">>, None)
    /\ <<"a">> \notin DOMAIN penv
    /\ <<"a">> \in DOMAIN vars
    /\ vars[<<"a">>] = VarPlaceholder(<<"b">>)
    /\ <<"b">> \in DOMAIN vars
    /\ subOut = VarPlaceholder(<<"b">>)

\* "{{a}}" was substituted with a bound to "${X:4}" and X set in the
\* environment: the output is the value of X
C12_ResolvedAfterExpansion ==
    /\ SubstitutedBound(<<"a">>)
    /\ vars[<<"a">>] = EnvPlaceholder(<<"X">>, Some(<<"4">>))
    /\ <<"X">> \in DOMAIN penv
    /\ subOut = penv[<<"X">>]

---------------------------------------------------------------------------
(* One call of execute_test, step by step.                                 *)

\* the largest number of JSONPath assertions of a modelled expectation
MaxAssertions == 2

\* the context the modelled call runs in
ExecContext ==
    (<<"u">> :> <<"http://h/">>) @@ (<<"a">> :> <<"2", "0", "0">>)

ExecRequests ==
    [method : {"GET", ""},
     url : {<<"http://h/", "x">>,
            <<"{", "{", "u", "}", "}", "x">>,
            <<"{", "{", "b", "}", "}", "x">>}]

Statuses == {200, 400}

\* expectation.status: None, Number(code) or String(code_str)
ExpectedStatuses ==
    {None, Some([num |-> 200]), Some([num |-> 400]),
     Some([str |-> <<"2", "0", "0">>]),
     Some([str |-> <<"{", "{", "a", "}", "}">>]),
     Some([str |-> <<"X">>])}

PathId == <<"$", ".", "i", "d">>

PathUserId == <<"$", ".", "u", ".", "i", "d">>

PathMissing == <<"$", ".", "b">>

PathBareId == <<"i", "d">>

\* the assertions expectations are made of: path -> expected value
AssertionPool ==
    (PathId :> JStr(<<"1">>)) @@ (PathUserId :> JStr(<<"a">>))
        @@ (PathMissing :> JNum(1)) @@ (PathBareId :> JNum(2))

\* expectation.jsonpath: None or a map of at most MaxAssertions assertions
JsonpathMaps ==
    {None} \cup
    {Some([p \in D |-> AssertionPool[p]]) :
        D \in {S \in SUBSET DOMAIN AssertionPool : Cardinality(S) <= MaxAssertions}}

Expectations ==
    {None} \cup {Some([status |-> st, jsonpath |-> jp]) :
                    st \in ExpectedStatuses, jp \in JsonpathMaps}

NotJson == [json |-> FALSE]

JsonBody(v) == [json |-> TRUE, value |-> v]

\* response bodies: text that is not JSON, {"id":1,"u":{"id":"a"}}, {"id":2}
Bodies ==
    {NotJson,
     JsonBody(JObj((<<"i", "d">> :> JNum(1))
                   @@ (<<"u">> :> JObj(<<"i", "d">> :> JStr(<<"a">>))))),
     JsonBody(JObj(<<"i", "d">> :> JNum(2)))}

\* every order a HashMap over the set S can iterate in
Orders(S) ==
    {o \in [1..Cardinality(S) -> S] : \A i, j \in 1..Cardinality(S) : i # j => o[i] # o[j]}

\* the orders the jsonpath map of `expectation` can iterate in
AssertionOrders(expectation) ==
    IF IsSome(expectation) /\ IsSome(expectation.some.jsonpath)
    THEN Orders(DOMAIN expectation.some.jsonpath.some)
    ELSE {<<>>}

NoResponse == [transport |-> "none", status |-> 0, body |-> None, order |-> <<>>]

\* RequestExecutor::new, before a call
InitExec ==
    /\ vars = ExecContext
    /\ penv = EmptyMap
    /\ SubstOff
    /\ exCall = None
    /\ exPc = "ready"
    /\ exNet = NoResponse
    /\ exResults = <<>>
    /\ exTrace = <<>>
    /\ RunnerOff
    /\ PerfOff

\* the call returns `result`
ExecReturn(result, trace) ==
    /\ exResults' = Append(exResults, result)
    /\ exTrace' = trace
    /\ exPc' = "done"

\* execute_test is called; execute_request runs up to send().await, or returns
\* the Err of a malformed URL or method at once
ExecCall(name, request, expectation) ==
    /\ exPc = "ready"
    /\ exCall' = [name |-> name, request |-> request, expectation |-> expectation]
    /\ IF PrepareRequest(request, vars, penv).ok
       THEN exPc' = "sending" /\ UNCHANGED <<exResults, exTrace>>
       ELSE ExecReturn(execute_test(name, request, expectation, vars, penv, NoResponse),
                       <<>>)
    /\ UNCHANGED <<substVars, runnerVars, perfVars, exNet>>

\* send() fails: connection refused, timeout, DNS
ExecTransportError ==
    /\ exPc = "sending"
    /\ exNet' = [exNet EXCEPT !.transport = "error"]
    /\ ExecReturn(execute_test(exCall.name, exCall.request, exCall.expectation,
                               vars, penv, exNet'), <<>>)
    /\ UNCHANGED <<substVars, runnerVars, perfVars, exCall>>

\* a response arrives; the call goes on to response.text().await
ExecResponse(status) ==
    /\ exPc = "sending"
    /\ exNet' = [exNet EXCEPT !.transport = "response", !.status = status]
    /\ exPc' = "reading"
    /\ UNCHANGED <<substVars, runnerVars, perfVars, exCall, exResults, exTrace>>

\* response.text() fails
ExecBodyError ==
    /\ exPc = "reading"
    /\ ExecReturn(execute_test(exCall.name, exCall.request, exCall.expectation,
                               vars, penv, exNet), <<>>)
    /\ UNCHANGED <<substVars, runnerVars, perfVars, exCall, exNet>>

\* the body is read; the response is validated if there is an expectation
ExecBody(body, order) ==
    /\ exPc = "reading"
    /\ exNet' = [exNet EXCEPT !.body = Some(body), !.order = order]
    /\ ExecReturn(execute_test(exCall.name, exCall.request, exCall.expectation,
                               vars, penv, exNet'),
                  IF IsSome(exCall.expectation)
                  THEN validate_response(exNet.status, body, exCall.expectation.some,
                                         order, vars, penv).trace
                  ELSE <<>>)
    /\ UNCHANGED <<substVars, runnerVars, perfVars, exCall>>

NextExec ==
    \/ \E request \in ExecRequests, expectation \in Expectations :
          ExecCall(<<"step">>, request, expectation)
    \/ ExecTransportError
    \/ \E status \in Statuses : ExecResponse(status)
    \/ ExecBodyError
    \/ /\ exPc = "reading"
       /\ \E body \in Bodies : \E order \in AssertionOrders(exCall.expectation) :
             ExecBody(body, order)

SpecExec == InitExec /\ [][NextExec]_allVars

---------------------------------------------------------------------------
(* Claims about the request executor.                                      *)

\* the call has returned
ExecDone == exPc = "done"

\* the request never reached the network, or send() failed
NoResponseArrived ==
    ~PrepareRequest(exCall.request, vars, penv).ok \/ exNet.transport = "error"

\* the transport failed or timed out after the response head had arrived:
\* `response.text()` gave an error. The timeout of the client (line 28)
\* runs until the body has been read
BodyReadFailed == exNet.transport = "response" /\ ~IsSome(exNet.body)

\* C8: execute_test returns exactly one TestResult and propagates no error;
\* a malformed URL or method, a transport failure or a timeout gives
\* passed = false, an error description and no response status; when a
\* response arrives and no expectation was supplied, passed holds iff
\* status < 400.
C8_AsWritten ==
    /\ Len(exResults) <= 1
    /\ ExecDone <=> Len(exResults) = 1
    /\ ExecDone =>
          /\ (NoResponseArrived \/ BodyReadFailed) =>
                /\ ~exResults[1].passed
                /\ IsSome(exResults[1].error)
                /\ exResults[1].response_status = None
          /\ (exNet.transport = "response" /\ ~IsSome(exCall.expectation)) =>
                (exResults[1].passed <=> exNet.status < 400)

\* the body of a response with status 200 could not be read: the call
\* returned a failed result that carries the status
C8_BodyReadFailureKeepsStatus ==
    /\ ExecDone
    /\ BodyReadFailed
    /\ exNet.status = 200
    /\ ~exResults[1].passed
    /\ IsSome(exResults[1].error)
    /\ exResults[1].response_status = Some(200)

\* what holds of C8 in every call: one result and no propagated error; no
\* status and a failed result when no response arrives; and, when the body
\* of the response was read and no expectation was supplied, passed iff
\* status < 400.
C8_HoldsWhenBodyRead ==
    /\ Len(exResults) <= 1
    /\ ExecDone <=> Len(exResults) = 1
    /\ ExecDone =>
          /\ NoResponseArrived =>
                /\ ~exResults[1].passed
                /\ IsSome(exResults[1].error)
                /\ exResults[1].response_status = None
          /\ BodyReadFailed =>
                /\ ~exResults[1].passed
                /\ IsSome(exResults[1].error)
          /\ (exNet.transport = "response" /\ IsSome(exNet.body)
                 /\ ~IsSome(exCall.expectation)) =>
                /\ exResults[1].passed <=> exNet.status < 400
                /\ exResults[1].response_status = Some(exNet.status)

\* validate_response has run: a body was read and there is an expectation
Validated == ExecDone /\ IsSome(exNet.body) /\ IsSome(exCall.expectation)

\* the JSONPath assertions the validation evaluated, in order
PathsEvaluated == SelectSeq(exTrace, LAMBDA c : c \notin {StatusCheck, JsonCheck})

\* the assertion on path p of the call's expectation holds of the body
AssertionHolds(p) ==
    validate_jsonpath(exNet.body.some.value, p, exCall.expectation.some.jsonpath.some[p],
                      vars, penv).ok

\* the expected status resolved to a code that differs from the actual status
StatusMismatch ==
    /\ IsSome(exCall.expectation.some.status)
    /\ IsSome(ResolveStatus(exCall.expectation.some.status.some, vars, penv).code)
    /\ ResolveStatus(exCall.expectation.some.status.some, vars, penv).code.some
          # exNet.status

\* C9: validation is first-failure-wins. The status expectation is checked
\* before any JSONPath assertion; on a status mismatch no assertion is
\* evaluated and the error text holds the expected and the actual code; the
\* assertions are evaluated one at a time in the map's order, every one before
\* the last evaluated one held, and the error is that of the last check made.
C9_FirstFailureWins ==
    Validated =>
        /\ IsSome(exCall.expectation.some.status) =>
              exTrace # <<>> /\ exTrace[1] = StatusCheck
        /\ \A i \in 2..Len(exTrace) : exTrace[i] # StatusCheck
        /\ StatusMismatch =>
              /\ exTrace = <<StatusCheck>>
              /\ ~exResults[1].passed
              /\ Contains(exResults[1].error.some,
                          Decimal(ResolveStatus(exCall.expectation.some.status.some,
                                                vars, penv).code.some))
              /\ Contains(exResults[1].error.some, Decimal(exNet.status))
        /\ \A i \in 1..Len(PathsEvaluated) : PathsEvaluated[i] = exNet.order[i]
        /\ \A i \in 1..(Len(PathsEvaluated) - 1) : AssertionHolds(PathsEvaluated[i])
        /\ exResults[1].passed <=> ~IsSome(exResults[1].error)
        /\ exResults[1].passed =>
              /\ Len(PathsEvaluated) = Len(exNet.order)
              /\ \A i \in 1..Len(PathsEvaluated) : AssertionHolds(PathsEvaluated[i])
        /\ (~exResults[1].passed /\ PathsEvaluated # <<>>) =>
              /\ ~AssertionHolds(PathsEvaluated[Len(PathsEvaluated)])
              /\ exResults[1].error =
                    Some(validate_jsonpath(exNet.body.some.value,
                             PathsEvaluated[Len(PathsEvaluated)],
                             exCall.expectation.some.jsonpath.some[
                                 PathsEvaluated[Len(PathsEvaluated)]],
                             vars, penv).err)

\* a status mismatch stopped a validation that had two assertions to make, and
\* both of them would have failed too
C9_Witness ==
    /\ Validated
    /\ StatusMismatch
    /\ exNet.body.some.json
    /\ IsSome(exCall.expectation.some.jsonpath)
    /\ Len(exNet.order) = 2
    /\ \A i \in 1..2 : ~AssertionHolds(exNet.order[i])
    /\ exTrace = <<StatusCheck>>

---------------------------------------------------------------------------
(* The test runner (runner/test_runner.rs): its inputs.                    *)

\* the largest number of main test steps of a modelled suite
MaxSteps == 3

\* the largest number of rows of a modelled dataset
MaxRows == 2

\* the largest number of suites load_test_suite returns
MaxSuites == 3

\* the largest number of failing responses the network delivers in one run
MaxFailures == 1

\* step k of a block is named "tb<k>" when k is odd and "t<k>" when k is even
StepName(k) == (IF k % 2 = 1 THEN <<"t", "b">> ELSE <<"t">>) \o Decimal(k)

\* a request that reaches the network
GoodRequest == [method |-> "GET", url |-> <<"http://h/", "x">>]

\* a request whose URL is a placeholder no context binds: Url::parse fails
BadRequest == [method |-> "GET", url |-> <<"{", "{", "u", "}", "}", "x">>]

\* a TestStep
Step(k, bad) ==
    [name |-> StepName(k),
     request |-> IF bad THEN BadRequest ELSE GoodRequest,
     expect |-> None]

\* n steps, step `bad` of them (none when bad = 0) with the malformed request
StepList(n, bad) == [k \in 1..n |-> Step(k, k = bad)]

\* config.setup and config.teardown: None, or Some(steps)
OptSteps(n) == IF n = 0 THEN None ELSE Some(StepList(n, 0))

\* the number of steps of the setup block and of the teardown block
BlockSizes == {0, 2}

\* row r of a data file
DataRow(r) == (<<"i">> :> Decimal(r))

\* a dataset whose file holds n rows
DatasetOf(n, parallel) ==
    Some([readable |-> TRUE, rows |-> [r \in 1..n |-> DataRow(r)], parallel |-> parallel])

\* a dataset whose file cannot be read
NoDataFile == Some([readable |-> FALSE, rows |-> <<>>, parallel |-> None])

\* --parallel: one step or suite at a time, or two
ParallelWorkers == {1, 2}

\* config.dataset: None, a file that cannot be read, or a file with rows,
\* read with the runner's parallelism or two rows' steps at a time
Datasets ==
    {None, NoDataFile, DatasetOf(MaxRows, Some(2))}
        \cup {DatasetOf(n, None) : n \in 0..MaxRows}

\* config.vars: a suite with a dataset declares a default for the column "i"
\* of its data file
SuiteVars(dataset) ==
    IF IsSome(dataset) THEN Some(<<"i">> :> <<"0">>) ELSE None

\* a RivetConfig
Suite(setup, tests, dataset, teardown) ==
    [name |-> <<"s">>, vars |-> SuiteVars(dataset), setup |-> setup, tests |-> tests,
     dataset |-> dataset, teardown |-> teardown]

\* the suites of a run with one suite
LargeSuites ==
    {Suite(OptSteps(x[1]), StepList(x[2], x[3]), x[4], OptSteps(x[1])) :
        x \in {y \in BlockSizes \X (1..MaxSteps) \X (0..MaxSteps) \X Datasets :
                  y[3] <= y[2]}}

\* the suites of a run with several suites
SmallSuites ==
    {Suite(None, StepList(1, bad), d, OptSteps(1)) :
        bad \in 0..1,
        d \in {None, NoDataFile}}

\* what load_test_suite returns
SuiteLists ==
    {<<c>> : c \in LargeSuites} \cup UNION {[1..k -> SmallSuites] : k \in 2..MaxSuites}

\* --grep
FilterPatterns == {None, Some(<<"b">>)}

\* the responses of the network: 200 and 500, with a body that is not JSON
RunnerNet(status) ==
    [transport |-> "response", status |-> status, body |-> Some(NotJson), order |-> <<>>]

PassNet == RunnerNet(200)

FailNet == RunnerNet(500)

\* the responses the network can still deliver
Nets == IF fails < MaxFailures THEN {PassNet, FailNet} ELSE {PassNet}

---------------------------------------------------------------------------
(* The test runner: the functions it is made of.                           *)

\* the bindings of `over` on top of those of ctx
Overlay(ctx, over) ==
    [k \in DOMAIN ctx \cup DOMAIN over |-> IF k \in DOMAIN over THEN over[k] ELSE ctx[k]]

\* VariableContext::with_env_vars
with_env_vars(ctx, env) == Overlay(ctx, env)

\* the loop of with_config_vars over the entries from the i-th on, in the
\* order the map iterates in
RECURSIVE ConfigVarsFrom(_, _, _, _, _)
ConfigVarsFrom(ctx, config_vars, order, i, env) ==
    IF i > Len(order) THEN ctx
    ELSE ConfigVarsFrom(set(ctx, order[i],
                            substitute_variables(config_vars[order[i]], ctx, env)),
                        config_vars, order, i + 1, env)

\* VariableContext::with_config_vars
with_config_vars(ctx, config_vars, order, env) ==
    IF IsSome(config_vars) THEN ConfigVarsFrom(ctx, config_vars.some, order, 1, env)
    ELSE ctx

\* an overlay in which the bindings of the context win over those of the row
with_data_rowKeepsContext(ctx, data) == Overlay(data, ctx)

\* VariableContext::with_data_row
with_data_row(ctx, data) == Overlay(ctx, data)

\* the RIVET_ENV binding of run_single_suite
WithEnvName(ctx, env_name) ==
    IF IsSome(env_name) THEN set(ctx, <<"RIVET_ENV">>, env_name.some) ELSE ctx

\* the context run_single_suite builds
SuiteContext(config, order, env_name, env) ==
    WithEnvName(with_config_vars(with_env_vars(EmptyMap, env), config.vars, order, env),
                env_name)

\* a filter that lets every step through
should_run_testAlways(filter_pattern, test_name) == TRUE

\* TestRunner::should_run_test
should_run_test(filter_pattern, test_name) ==
    IF IsSome(filter_pattern) THEN Contains(test_name, filter_pattern.some) ELSE TRUE

\* the indexes of the steps whose name passes the filter, in declared order
FilteredSteps(filter_pattern, steps) ==
    SelectSeq([k \in 1..Len(steps) |-> k],
              LAMBDA k : should_run_test(filter_pattern, steps[k].name))

\* a step loop that never bails
StepBailNever(bail_on_failure, passed) == FALSE

\* `self.bail_on_failure && !passed`
StepBail(bail_on_failure, passed) == bail_on_failure /\ ~passed

\* a suite loop that never bails
SuiteBailNever(bail_on_failure, failed) == FALSE

\* `self.bail_on_failure && failed > 0`
SuiteBail(bail_on_failure, failed) == bail_on_failure /\ failed > 0

\* `results.iter().filter(|r| r.passed).count()`
CountPassed(results) == Len(SelectSeq(results, LAMBDA r : r.passed))

\* a failed count that takes every result for a failure
SuiteFailedAll(results, passed) == Len(results)

\* `results.len() - passed`
SuiteFailed(results, passed) == Len(results) - passed

TestSuiteResultOf(name, results, passed) ==
    [name |-> name, results |-> results, passed |-> passed,
     failed |-> SuiteFailed(results, passed)]

\* the TestSuiteResult the suite loops build from what run_single_suite returned
TestSuiteResult(name, results) == TestSuiteResultOf(name, results, CountPassed(results))

\* "Setup: " and "Teardown: "
BlockPrefix(ph) == IF ph = "setup" THEN <<"Setup: ">> ELSE <<"Teardown: ">>

\* the steps of config.setup or config.teardown; none when the block is absent
BlockSteps(config, ph) ==
    IF ph = "setup"
    THEN (IF IsSome(config.setup) THEN config.setup.some ELSE <<>>)
    ELSE (IF IsSome(config.teardown) THEN config.teardown.some ELSE <<>>)

\* a chunk length that is all that is left, whatever the parallelism
MinTakesAll(a, b) == b

Min(a, b) == IF a <= b THEN a ELSE b

---------------------------------------------------------------------------
(* The test runner: one run_single_suite future.                           *)
(*                                                                         *)
(* Everything run_tests awaits runs in one task: a future that is polled   *)
(* runs until it awaits the network or the file system, and a pending      *)
(* future goes on when what it awaits has arrived. `cur` is the suite      *)
(* whose future is running. A FuturesUnordered polls the futures pushed    *)
(* into it in the order they were pushed, before it polls a future that    *)
(* was woken; dropping it drops the futures it still holds.                *)

\* a run_test_steps call: `parallel`, the filtered steps, the position in
\* them (of the next step, or of the first step of the chunk), the step whose
\* execute_test is awaited (sequential), the futures of the chunk in the
\* FuturesUnordered (parallel), `results`, and "ret" once it has returned early
NoFrame ==
    [parallel |-> 0, filtered |-> <<>>, pos |-> 0, wait |-> 0, futs |-> <<>>,
     results |-> <<>>, status |-> "none"]

\* a run_single_suite future: where it is, the runner's parallel_workers,
\* `context`, the position in the setup or teardown block and the step of it
\* whose execute_test is awaited, the loaded data rows and the current row,
\* `all_results`, the run_test_steps call in progress; `log` records the
\* execute_test calls started, finished and dropped, `passed` the context
\* each of them was passed, `returns` what each run_test_steps call returned
IdleTask ==
    [phase |-> "idle", workers |-> 0, context |-> EmptyMap, i |-> 0, wait |-> 0,
     rows |-> <<>>, row |-> 0, all_results |-> <<>>, frame |-> NoFrame,
     log |-> <<>>, passed |-> <<>>, returns |-> <<>>]

Event(e, ph, row, step, passed) ==
    [e |-> e, ph |-> ph, row |-> row, step |-> step, passed |-> passed]

\* the RivetConfig of suite s
Config(s) == cfg.suites[s]

\* the file name load_test_suite pairs with suite s: the files of a
\* directory come sorted by name, and the name field of a RivetConfig is no
\* part of it
SuiteName(s) == <<"f">> \o Decimal(s) \o <<".rivet.yaml">>

\* the orders config.vars can iterate in
VarOrders(config) ==
    IF IsSome(config.vars) THEN Orders(DOMAIN config.vars.some) ELSE {<<>>}

\* the futures of the suites of the chunk that were pushed and not yet polled
UnpolledSuites == {x \in DOMAIN task : task[x].phase = "pushed"}

\* no future is running, and every future pushed has been polled once
Pending == cur = 0 /\ run.pc \in {"seq", "par"} /\ UnpolledSuites = {}

\* the count of failing responses after `net` was delivered
Delivered(net) == IF net = FailNet THEN fails + 1 ELSE fails

\* run_single_suite is polled for the first time: the context is built
BeginSuite(t, config, order, workers) ==
    [t EXCEPT !.phase = "setup", !.workers = workers, !.i = 1,
              !.context = SuiteContext(config, order, cfg.env, penv)]

\* `context.clone().with_data_row(&data_row)`, or `context` without a dataset
RowContext(t) == IF t.row = 0 THEN t.context ELSE with_data_row(t.context, t.rows[t.row])

\* the context an execute_test call of phase ph is passed: `&context` in the
\* setup and teardown loops, the `context` of run_test_steps for a main step
PassedContext(t, ph) == IF ph = "main" THEN RowContext(t) ELSE t.context

Started(t, ph, row, step) ==
    [t EXCEPT !.log = Append(@, Event("start", ph, row, step, FALSE)),
              !.passed = Append(@, [ph |-> ph, row |-> row, step |-> step,
                                    context |-> PassedContext(t, ph)])]

\* the execute_test call of a setup or teardown step
BlockResult(t, ph, step, net) ==
    execute_test(BlockPrefix(ph) \o step.name, step.request, step.expect, t.context,
                 penv, net)

\* `all_results.push(result)` of the setup and teardown loops
PushBlockResult(t, ph, result) ==
    [t EXCEPT !.all_results = Append(@, result),
              !.log = Append(@, Event("end", ph, 0, t.i, result.passed)),
              !.i = @ + 1,
              !.wait = 0]

\* one iteration of the setup or teardown loop, up to the await of
\* execute_test; a request that is malformed returns without awaiting
BlockTurn(s, t, ph, step) ==
    IF ~should_run_test(cfg.filter_pattern, step.name)
    THEN /\ task' = [task EXCEPT ![s].i = @ + 1]
         /\ UNCHANGED cur
    ELSE IF ~PrepareRequest(step.request, t.context, penv).ok
    THEN /\ task' = [task EXCEPT ![s] =
                        PushBlockResult(Started(t, ph, 0, t.i), ph,
                                        BlockResult(t, ph, step, NoResponse))]
         /\ UNCHANGED cur
    ELSE /\ task' = [task EXCEPT ![s] = [Started(t, ph, 0, t.i) EXCEPT !.wait = t.i]]
         /\ cur' = 0

BlockStep(s, ph) ==
    /\ cur = s
    /\ task[s].phase = ph
    /\ task[s].wait = 0
    /\ task[s].i <= Len(BlockSteps(Config(s), ph))
    /\ BlockTurn(s, task[s], ph, BlockSteps(Config(s), ph)[task[s].i])
    /\ UNCHANGED <<substVars, execVars, perfVars, cfg, run, fails>>

\* the execute_test a setup or teardown loop awaits returns
BlockStepDone(s, ph, net) ==
    /\ Pending
    /\ task[s].phase = ph
    /\ task[s].wait # 0
    /\ task' = [task EXCEPT ![s] =
                   PushBlockResult(task[s], ph,
                                   BlockResult(task[s], ph,
                                               BlockSteps(Config(s), ph)[task[s].wait],
                                               net))]
    /\ cur' = s
    /\ fails' = Delivered(net)
    /\ UNCHANGED <<substVars, execVars, perfVars, cfg, run>>

\* the setup loop, lines 212-226
SetupStep(s) == BlockStep(s, "setup")

SetupStepDone(s, net) == BlockStepDone(s, "setup", net)

\* the teardown loop, lines 249-263
TeardownStep(s) == BlockStep(s, "teardown")

TeardownStepDone(s, net) == BlockStepDone(s, "teardown", net)

\* run_test_steps is called: the steps are filtered
NewFrame(steps, parallel) ==
    [parallel |-> parallel,
     filtered |-> FilteredSteps(cfg.filter_pattern, steps),
     pos |-> 1, wait |-> 0, futs |-> <<>>, results |-> <<>>, status |-> "run"]

StartSteps(t, steps, row, parallel) ==
    [t EXCEPT !.phase = "main", !.row = row, !.frame = NewFrame(steps, parallel)]

\* the main tests are over: the teardown block begins
StartTeardown(t) ==
    [t EXCEPT !.phase = "teardown", !.i = 1, !.row = 0, !.frame = NoFrame]

\* `dataset.parallel.unwrap_or(self.parallel_workers)`
UnwrapOr(option, default) == IF IsSome(option) THEN option.some ELSE default

\* the loop over data_rows, at row `row`
NextRow(t, config, row) ==
    IF row <= Len(t.rows)
    THEN StartSteps(t, config.tests, row, UnwrapOr(config.dataset.some.parallel, t.workers))
    ELSE StartTeardown(t)

\* the setup loop is over: load_csv_data is awaited, or run_test_steps is
\* called on config.tests
SetupEnd(s) ==
    /\ cur = s
    /\ task[s].phase = "setup"
    /\ task[s].wait = 0
    /\ task[s].i > Len(BlockSteps(Config(s), "setup"))
    /\ IF IsSome(Config(s).dataset)
       THEN /\ task' = [task EXCEPT ![s].phase = "load"]
            /\ cur' = 0
       ELSE /\ task' = [task EXCEPT ![s] =
                           StartSteps(task[s], Config(s).tests, 0, task[s].workers)]
            /\ UNCHANGED cur
    /\ UNCHANGED <<substVars, execVars, perfVars, cfg, run, fails>>

\* what `load_csv_data(..).await.with_context(..)?` leaves: the Err returned
\* by run_single_suite, or the rows and the first run_test_steps call
Loaded(t, config, dataset) ==
    IF ~dataset.readable THEN [t EXCEPT !.phase = "err"]
    ELSE NextRow([t EXCEPT !.rows = dataset.rows], config, 1)

\* load_csv_data returns
LoadDataset(s) ==
    /\ Pending
    /\ task[s].phase = "load"
    /\ task' = [task EXCEPT ![s] = Loaded(task[s], Config(s), Config(s).dataset.some)]
    /\ cur' = s
    /\ UNCHANGED <<substVars, execVars, perfVars, cfg, run, fails>>

\* the index in config.tests of the filtered step at position p
StepAt(f, p) == f.filtered[p]

\* the execute_test call of a main step
MainResult(t, step, net) ==
    execute_test(step.name, step.request, step.expect, RowContext(t), penv, net)

\* `results.push(result)` and the bail check of the sequential loop
PushSeqResult(t, result) ==
    [t EXCEPT !.frame.results = Append(@, result),
              !.frame.wait = 0,
              !.frame.pos = @ + 1,
              !.frame.status =
                  IF StepBail(cfg.bail_on_failure, result.passed) THEN "ret" ELSE "run",
              !.log = Append(@, Event("end", "main", t.row, StepAt(t.frame, t.frame.pos),
                                      result.passed))]

\* one iteration of the sequential loop of run_test_steps, up to the await
SeqTurn(s, t, k, step) ==
    IF ~PrepareRequest(step.request, RowContext(t), penv).ok
    THEN /\ task' = [task EXCEPT ![s] =
                        PushSeqResult(Started(t, "main", t.row, k),
                                      MainResult(t, step, NoResponse))]
         /\ UNCHANGED cur
    ELSE /\ task' = [task EXCEPT ![s] =
                        [Started(t, "main", t.row, k) EXCEPT !.frame.wait = t.frame.pos]]
         /\ cur' = 0

\* the sequential loop of run_test_steps, lines 282-297
SeqStep(s) ==
    /\ cur = s
    /\ task[s].phase = "main"
    /\ task[s].frame.status = "run"
    /\ task[s].frame.parallel <= 1
    /\ task[s].frame.wait = 0
    /\ task[s].frame.pos <= Len(task[s].frame.filtered)
    /\ SeqTurn(s, task[s], StepAt(task[s].frame, task[s].frame.pos),
               Config(s).tests[StepAt(task[s].frame, task[s].frame.pos)])
    /\ UNCHANGED <<substVars, execVars, perfVars, cfg, run, fails>>

\* the execute_test the sequential loop awaits returns
SeqStepDone(s, net) ==
    /\ Pending
    /\ task[s].phase = "main"
    /\ task[s].frame.status = "run"
    /\ task[s].frame.wait # 0
    /\ task' = [task EXCEPT ![s] =
                   PushSeqResult(task[s],
                                 MainResult(task[s],
                                            Config(s).tests[StepAt(task[s].frame,
                                                                   task[s].frame.wait)],
                                            net))]
    /\ cur' = s
    /\ fails' = Delivered(net)
    /\ UNCHANGED <<substVars, execVars, perfVars, cfg, run>>

AnyPushed(futs) == \E k \in DOMAIN futs : futs[k] = "pushed"

\* the future the FuturesUnordered polls next among those never polled
FirstPushed(futs) ==
    CHOOSE k \in DOMAIN futs : futs[k] = "pushed" /\ \A j \in 1..(k - 1) : futs[j] # "pushed"

\* the slots of the chunk whose execute_test is in flight
InflightSlots(futs) ==
    SelectSeq([j \in 1..Len(futs) |-> j], LAMBDA j : futs[j] = "inflight")

\* the execute_test calls in flight in the chunk of t's run_test_steps call
InflightOf(t, slots) ==
    [n \in 1..Len(slots) |->
        Event("drop", "main", t.row, StepAt(t.frame, t.frame.pos + slots[n] - 1), FALSE)]

FutDrops(t) == InflightOf(t, InflightSlots(t.frame.futs))

\* the FuturesUnordered of a chunk is dropped: what was in flight is
\* cancelled, what was never polled never starts
DropFuts(futs) ==
    [j \in DOMAIN futs |->
        IF futs[j] = "inflight" THEN "dropped"
        ELSE IF futs[j] = "pushed" THEN "unpolled"
        ELSE futs[j]]

\* `for chunk in filtered_steps.chunks(parallel)`: the chunk is collected
NextChunk(t) ==
    IF \A j \in DOMAIN t.frame.futs : t.frame.futs[j] = "taken"
    THEN [t EXCEPT !.frame.pos = @ + Len(t.frame.futs), !.frame.futs = <<>>]
    ELSE t

\* the bail check of the collection loop, lines 335-337: `return results`
\* drops the FuturesUnordered
Collected(t, result) ==
    IF StepBail(cfg.bail_on_failure, result.passed)
    THEN [t EXCEPT !.frame.status = "ret",
                   !.frame.futs = DropFuts(@),
                   !.log = @ \o FutDrops(t)]
    ELSE NextChunk(t)

\* `futures.next().await` returned the result of the future in slot k:
\* `results.push(result)`
Collect(t, k, result) ==
    Collected([t EXCEPT !.frame.results = Append(@, result),
                        !.frame.futs[k] = "taken",
                        !.log = Append(@, Event("end", "main", t.row,
                                                StepAt(t.frame, t.frame.pos + k - 1),
                                                result.passed))],
              result)

\* the suite's future after a poll of its FuturesUnordered: pending when
\* every future left in it is in flight
CurAfter(s, f) ==
    IF f.status = "run" /\ f.futs # <<>> /\ ~AnyPushed(f.futs) THEN 0 ELSE s

\* `futures.push(..)` for every step of the next chunk, lines 309-327
ParDispatch(s) ==
    /\ cur = s
    /\ task[s].phase = "main"
    /\ task[s].frame.status = "run"
    /\ task[s].frame.parallel > 1
    /\ task[s].frame.futs = <<>>
    /\ task[s].frame.pos <= Len(task[s].frame.filtered)
    /\ task' = [task EXCEPT ![s].frame.futs =
                   [k \in 1..Min(task[s].frame.parallel,
                                 Len(task[s].frame.filtered) - task[s].frame.pos + 1)
                       |-> "pushed"]]
    /\ UNCHANGED <<substVars, execVars, perfVars, cfg, run, cur, fails>>

\* the first poll of the future in slot k, which runs step number `idx`
ParTurn(s, t, k, idx, step) ==
    /\ task' = [task EXCEPT ![s] =
                   IF ~PrepareRequest(step.request, RowContext(t), penv).ok
                   THEN Collect(Started(t, "main", t.row, idx), k,
                                MainResult(t, step, NoResponse))
                   ELSE [Started(t, "main", t.row, idx) EXCEPT !.frame.futs[k] = "inflight"]]
    /\ cur' = CurAfter(s, task'[s].frame)

\* `futures.next().await` polls a future for the first time
ParPoll(s) ==
    /\ cur = s
    /\ task[s].phase = "main"
    /\ task[s].frame.status = "run"
    /\ AnyPushed(task[s].frame.futs)
    /\ ParTurn(s, task[s], FirstPushed(task[s].frame.futs),
               StepAt(task[s].frame,
                      task[s].frame.pos + FirstPushed(task[s].frame.futs) - 1),
               Config(s).tests[StepAt(task[s].frame,
                                      task[s].frame.pos
                                          + FirstPushed(task[s].frame.futs) - 1)])
    /\ UNCHANGED <<substVars, execVars, perfVars, cfg, run, fails>>

\* the execute_test of the future in slot k returns, and
\* `futures.next().await` returns its result
ParDone(s, k, net) ==
    /\ Pending
    /\ task[s].phase = "main"
    /\ task[s].frame.status = "run"
    /\ k \in DOMAIN task[s].frame.futs
    /\ task[s].frame.futs[k] = "inflight"
    /\ task' = [task EXCEPT ![s] =
                   Collect(task[s], k,
                           MainResult(task[s],
                                      Config(s).tests[StepAt(task[s].frame,
                                                             task[s].frame.pos + k - 1)],
                                      net))]
    /\ cur' = CurAfter(s, task'[s].frame)
    /\ fails' = Delivered(net)
    /\ UNCHANGED <<substVars, execVars, perfVars, cfg, run>>

\* run_test_steps has returned early, or has no step left
FrameOver(f) ==
    \/ f.status = "ret"
    \/ f.status = "run" /\ f.wait = 0 /\ f.futs = <<>> /\ f.pos > Len(f.filtered)

\* what a run_test_steps call returned, and the chunk it left
ReturnRecord(t) ==
    [row |-> t.row, parallel |-> t.frame.parallel, filtered |-> t.frame.filtered,
     results |-> t.frame.results, pos |-> t.frame.pos, futs |-> t.frame.futs,
     early |-> t.frame.status = "ret"]

\* after `all_results.extend(test_results)`: the next row, or the teardown
AfterSteps(t, config) ==
    IF IsSome(config.dataset) THEN NextRow(t, config, t.row + 1) ELSE StartTeardown(t)

\* run_test_steps returns: `all_results.extend(test_results)`
ReturnSteps(s) ==
    /\ cur = s
    /\ task[s].phase = "main"
    /\ FrameOver(task[s].frame)
    /\ task' = [task EXCEPT ![s] =
                   AfterSteps([task[s] EXCEPT
                                  !.all_results = @ \o task[s].frame.results,
                                  !.returns = Append(@, ReturnRecord(task[s]))],
                              Config(s))]
    /\ UNCHANGED <<substVars, execVars, perfVars, cfg, run, cur, fails>>

\* the teardown loop is over: run_single_suite returns Ok(all_results)
TeardownEnd(s) ==
    /\ cur = s
    /\ task[s].phase = "teardown"
    /\ task[s].wait = 0
    /\ task[s].i > Len(BlockSteps(Config(s), "teardown"))
    /\ task' = [task EXCEPT ![s].phase = "done"]
    /\ UNCHANGED <<substVars, execVars, perfVars, cfg, run, cur, fails>>

---------------------------------------------------------------------------
(* The test runner: run_tests and the two suite loops.                     *)

\* TestRunner::new and load_test_suite: a runner, and the suites of a target
InitRunner ==
    /\ vars = EmptyMap
    /\ penv = EmptyMap
    /\ SubstOff
    /\ ExecOff
    /\ cfg \in [parallel_workers : ParallelWorkers,
                bail_on_failure : BOOLEAN,
                filter_pattern : FilterPatterns,
                env : {None},
                suites : SuiteLists]
    /\ run = [pc |-> "start", next |-> 1, active |-> 0, chunk |-> <<>>,
              all_results |-> <<>>]
    /\ task = [s \in 1..Len(cfg.suites) |-> IdleTask]
    /\ cur = 0
    /\ fails = 0
    /\ PerfOff

\* TestRunner::run_tests: the choice between the two suite loops
run_tests ==
    /\ run.pc = "start"
    /\ run' = [run EXCEPT !.pc = IF Len(cfg.suites) <= 1 \/ cfg.parallel_workers <= 1
                                 THEN "seq" ELSE "par"]
    /\ UNCHANGED <<substVars, execVars, perfVars, cfg, task, cur, fails>>

\* run_suites_sequential: the loop calls run_single_suite on the next suite
SeqNextSuite ==
    /\ run.pc = "seq"
    /\ run.active = 0
    /\ run.next <= Len(cfg.suites)
    /\ \E order \in VarOrders(Config(run.next)) :
          task' = [task EXCEPT ![run.next] =
                      BeginSuite(task[run.next], Config(run.next), order,
                                 cfg.parallel_workers)]
    /\ run' = [run EXCEPT !.active = run.next]
    /\ cur' = run.next
    /\ UNCHANGED <<substVars, execVars, perfVars, cfg, fails>>

\* run_suites_sequential: no suite is left, `Ok(all_results)`
SeqEnd ==
    /\ run.pc = "seq"
    /\ run.active = 0
    /\ run.next > Len(cfg.suites)
    /\ run' = [run EXCEPT !.pc = "ok"]
    /\ UNCHANGED <<substVars, execVars, perfVars, cfg, task, cur, fails>>

\* the suite loop pushes the TestSuiteResult r of suite s; under bail a
\* failure in it ends the loop, and run_suites_sequential returns
SeqPush(s, r) ==
    /\ run' = [run EXCEPT !.all_results = Append(@, r),
                          !.active = 0,
                          !.next = @ + 1,
                          !.pc = IF SuiteBail(cfg.bail_on_failure, r.failed)
                                 THEN "ok" ELSE "seq"]
    /\ task' = [task EXCEPT ![s].phase = "collected"]
    /\ cur' = 0

\* run_suites_sequential, lines 73-91: run_single_suite returned Ok(results)
SeqCollect(s) ==
    /\ run.pc = "seq"
    /\ run.active = s
    /\ cur = s
    /\ task[s].phase = "done"
    /\ SeqPush(s, TestSuiteResult(SuiteName(s), task[s].all_results))
    /\ UNCHANGED <<substVars, execVars, perfVars, cfg, fails>>

\* run_suites_sequential, line 73: run_single_suite returned Err, `?` returns it
SeqError(s) ==
    /\ run.pc = "seq"
    /\ run.active = s
    /\ cur = s
    /\ task[s].phase = "err"
    /\ run' = [run EXCEPT !.pc = "err", !.active = 0]
    /\ cur' = 0
    /\ UNCHANGED <<substVars, execVars, perfVars, cfg, task, fails>>

InChunk(x) == \E j \in DOMAIN run.chunk : run.chunk[j] = x

\* run_suites_parallel, lines 105-141: a future is pushed for every suite of
\* the next chunk
ParNextChunk ==
    /\ run.pc = "par"
    /\ cur = 0
    /\ run.chunk = <<>>
    /\ run.next <= Len(cfg.suites)
    /\ run' = [run EXCEPT !.chunk =
                  [j \in 1..Min(cfg.parallel_workers, Len(cfg.suites) - run.next + 1)
                      |-> run.next + j - 1]]
    /\ task' = [x \in DOMAIN task |->
                   IF x >= run.next /\ x < run.next + cfg.parallel_workers
                   THEN [task[x] EXCEPT !.phase = "pushed"]
                   ELSE task[x]]
    /\ UNCHANGED <<substVars, execVars, perfVars, cfg, cur, fails>>

\* run_suites_parallel: no chunk is left, `Ok(all_results)`
ParEnd ==
    /\ run.pc = "par"
    /\ cur = 0
    /\ run.chunk = <<>>
    /\ run.next > Len(cfg.suites)
    /\ run' = [run EXCEPT !.pc = "ok"]
    /\ UNCHANGED <<substVars, execVars, perfVars, cfg, task, cur, fails>>

\* the first suite of the chunk whose future was never polled
FirstUnpolled == CHOOSE x \in UnpolledSuites : \A y \in UnpolledSuites : x <= y

\* `futures.next().await` polls the future of a suite for the first time: a
\* temporary runner with parallel_workers 1 calls run_single_suite
ParPollSuite ==
    /\ run.pc = "par"
    /\ cur = 0
    /\ UnpolledSuites # {}
    /\ \E order \in VarOrders(Config(FirstUnpolled)) :
          task' = [task EXCEPT ![FirstUnpolled] =
                      BeginSuite(task[FirstUnpolled], Config(FirstUnpolled), order, 1)]
    /\ cur' = FirstUnpolled
    /\ UNCHANGED <<substVars, execVars, perfVars, cfg, run, fails>>

\* the execute_test calls a pending run_single_suite future awaits
TaskDrops(t) ==
    IF t.wait # 0 THEN <<Event("drop", t.phase, 0, t.wait, FALSE)>>
    ELSE IF t.phase = "main" /\ t.frame.wait # 0
         THEN <<Event("drop", "main", t.row, StepAt(t.frame, t.frame.wait), FALSE)>>
    ELSE IF t.phase = "main" THEN FutDrops(t)
    ELSE <<>>

\* the future of a suite is dropped with the FuturesUnordered that holds it
Dropped(t) ==
    IF t.phase = "pushed" THEN [t EXCEPT !.phase = "unpolled"]
    ELSE IF t.phase = "collected" THEN t
    ELSE [t EXCEPT !.phase = "dropped", !.log = @ \o TaskDrops(t)]

\* run_suites_parallel returns while suite s is collected: the futures of the
\* other suites of the chunk are dropped
DropOthers(s, phase) ==
    [x \in DOMAIN task |->
        IF x = s THEN [task[x] EXCEPT !.phase = phase]
        ELSE IF InChunk(x) THEN Dropped(task[x])
        ELSE task[x]]

\* the chunk after suite s was collected: over when all its suites were
ChunkAfter(s) ==
    IF \A j \in DOMAIN run.chunk : run.chunk[j] = s \/ task[run.chunk[j]].phase = "collected"
    THEN [run EXCEPT !.chunk = <<>>, !.next = @ + Len(run.chunk)]
    ELSE run

\* the collection loop pushes the TestSuiteResult r of suite s; under bail a
\* failure in it makes run_suites_parallel return
ParPush(s, r) ==
    IF SuiteBail(cfg.bail_on_failure, r.failed)
    THEN /\ run' = [run EXCEPT !.all_results = Append(@, r), !.pc = "ok"]
         /\ task' = DropOthers(s, "collected")
    ELSE /\ run' = [ChunkAfter(s) EXCEPT !.all_results = Append(@, r)]
         /\ task' = [task EXCEPT ![s].phase = "collected"]

\* run_suites_parallel, lines 144-163: `futures.next().await` returned the
\* Ok(results) of suite s
ParCollect(s) ==
    /\ run.pc = "par"
    /\ cur = s
    /\ task[s].phase = "done"
    /\ ParPush(s, TestSuiteResult(SuiteName(s), task[s].all_results))
    /\ cur' = 0
    /\ UNCHANGED <<substVars, execVars, perfVars, cfg, fails>>

\* run_suites_parallel, lines 164-166: `futures.next().await` returned the
\* Err of suite s, `return Err(e)`
ParError(s) ==
    /\ run.pc = "par"
    /\ cur = s
    /\ task[s].phase = "err"
    /\ run' = [run EXCEPT !.pc = "err"]
    /\ task' = DropOthers(s, "err")
    /\ cur' = 0
    /\ UNCHANGED <<substVars, execVars, perfVars, cfg, fails>>

NextRunner ==
    \/ run_tests
    \/ SeqNextSuite
    \/ SeqEnd
    \/ \E s \in DOMAIN task : SeqCollect(s)
    \/ \E s \in DOMAIN task : SeqError(s)
    \/ ParNextChunk
    \/ ParEnd
    \/ ParPollSuite
    \/ \E s \in DOMAIN task : ParCollect(s)
    \/ \E s \in DOMAIN task : ParError(s)
    \/ \E s \in DOMAIN task : SetupStep(s)
    \/ \E s \in DOMAIN task : \E net \in Nets : SetupStepDone(s, net)
    \/ \E s \in DOMAIN task : SetupEnd(s)
    \/ \E s \in DOMAIN task : LoadDataset(s)
    \/ \E s \in DOMAIN task : SeqStep(s)
    \/ \E s \in DOMAIN task : \E net \in Nets : SeqStepDone(s, net)
    \/ \E s \in DOMAIN task : ParDispatch(s)
    \/ \E s \in DOMAIN task : ParPoll(s)
    \/ \E s \in DOMAIN task : \E k \in DOMAIN task[s].frame.futs : \E net \in Nets :
          ParDone(s, k, net)
    \/ \E s \in DOMAIN task : ReturnSteps(s)
    \/ \E s \in DOMAIN task : TeardownStep(s)
    \/ \E s \in DOMAIN task : \E net \in Nets : TeardownStepDone(s, net)
    \/ \E s \in DOMAIN task : TeardownEnd(s)

SpecRunner == InitRunner /\ [][NextRunner]_allVars

---------------------------------------------------------------------------
(* Claims about the test runner.                                           *)

\* run_tests has returned
RunReturned == run.pc \in {"ok", "err"}

\* several suites were loaded
MultiSuite == Len(cfg.suites) > 1

\* run_single_suite was never polled for the suite of task t
NotStarted(t) == t.phase \in {"idle", "pushed", "unpolled"}

IsStart(ev, ph) == ev.e = "start" /\ ev.ph = ph

IsFailedEnd(ev, ph) == ev.e = "end" /\ ev.ph = ph /\ ~ev.passed

\* the main steps started for row `row`, in the order they were started
MainStarted(log, row) ==
    SelectSeq(log, LAMBDA ev : IsStart(ev, "main") /\ ev.row = row)

StepsOf(events) == [n \in 1..Len(events) |-> events[n].step]

NamesOf(results) == [n \in 1..Len(results) |-> results[n].name]

StepNames(config, idxs) == [n \in 1..Len(idxs) |-> config.tests[idxs[n]].name]

\* the run_test_steps call that returned rr ran sequentially and returned the
\* filtered steps up to and including the first failing one, having started
\* no other step
HaltedAtFirstFailure(config, log, rr) ==
    /\ Len(rr.results) <= Len(rr.filtered)
    /\ NamesOf(rr.results) = StepNames(config, SubSeq(rr.filtered, 1, Len(rr.results)))
    /\ \A m \in 1..(Len(rr.results) - 1) : rr.results[m].passed
    /\ Len(rr.results) < Len(rr.filtered) =>
          /\ rr.results # <<>>
          /\ ~rr.results[Len(rr.results)].passed
    /\ StepsOf(MainStarted(log, rr.row)) = SubSeq(rr.filtered, 1, Len(rr.results))

\* the main steps of row `row` of suite s run sequentially
SequentialRow(s, row) ==
    \/ task[s].phase = "main" /\ task[s].row = row /\ task[s].frame.parallel <= 1
    \/ \E n \in 1..Len(task[s].returns) :
          task[s].returns[n].row = row /\ task[s].returns[n].parallel <= 1

\* no main step of a row is started after a main step of that row failed
NoStartAfterFailure(s, log) ==
    \A i, j \in DOMAIN log :
        (i < j /\ IsFailedEnd(log[i], "main") /\ SequentialRow(s, log[i].row))
            => ~(IsStart(log[j], "main") /\ log[j].row = log[i].row)

\* C1: with bail-on-failure enabled and a step list run sequentially, no step
\* after the first failing step is ever executed, and run_test_steps returns
\* exactly the filtered steps up to and including the first failing one, in
\* declared order.
C1_SequentialBailHalts ==
    cfg.bail_on_failure =>
        \A s \in DOMAIN task :
            /\ NoStartAfterFailure(s, task[s].log)
            /\ \A n \in 1..Len(task[s].returns) :
                  task[s].returns[n].parallel <= 1 =>
                      HaltedAtFirstFailure(Config(s), task[s].log, task[s].returns[n])

\* a sequential call on three steps returned after its second step failed
C1_Witness ==
    /\ cfg.bail_on_failure
    /\ \E s \in DOMAIN task : \E n \in 1..Len(task[s].returns) :
          /\ task[s].returns[n].parallel <= 1
          /\ Len(task[s].returns[n].filtered) = 3
          /\ Len(task[s].returns[n].results) = 2
          /\ task[s].returns[n].results[1].passed
          /\ ~task[s].returns[n].results[2].passed

\* the teardown steps of `config` whose name passes the filter
FilteredTeardown(config) ==
    FilteredSteps(cfg.filter_pattern, BlockSteps(config, "teardown"))

\* teardown step k was executed, after every main step that was started
TeardownExecuted(log, k) ==
    \E j \in DOMAIN log :
        /\ IsStart(log[j], "teardown")
        /\ log[j].step = k
        /\ \A i \in DOMAIN log : IsStart(log[i], "main") => i < j

\* C2: once run_single_suite has started on a suite, every teardown step whose
\* name passes the filter is executed, after the main tests, however setup and
\* main tests went: when run_tests has returned, every suite that was started
\* has had each of them executed.
C2_TeardownAlwaysRuns ==
    RunReturned =>
        \A s \in DOMAIN task :
            ~NotStarted(task[s]) =>
                \A n \in 1..Len(FilteredTeardown(Config(s))) :
                    TeardownExecuted(task[s].log, FilteredTeardown(Config(s))[n])

\* C3: bail is cooperative. When a failing result is collected from a
\* concurrent chunk with bail enabled, every other future dispatched in that
\* chunk has run or still runs to completion: a chunk of steps that
\* run_test_steps returned from holds no future that was dropped, and a chunk
\* of suites that run_tests returned from holds no suite that was.
C3_BailIsCooperative ==
    cfg.bail_on_failure =>
        /\ \A s \in DOMAIN task : \A n \in 1..Len(task[s].returns) :
              (task[s].returns[n].early /\ task[s].returns[n].parallel > 1) =>
                  \A k \in DOMAIN task[s].returns[n].futs :
                      task[s].returns[n].futs[k] = "taken"
        /\ run.pc = "ok" =>
              \A s \in DOMAIN task : InChunk(s) => task[s].phase = "collected"

\* C4: with bail-on-failure enabled, no later setup step and no main step of
\* a suite is executed after the first failing setup result.
C4_SetupFailureHalts ==
    cfg.bail_on_failure =>
        \A s \in DOMAIN task : \A i, j \in DOMAIN task[s].log :
            (i < j /\ IsFailedEnd(task[s].log[i], "setup"))
                => ~(IsStart(task[s].log[j], "setup") \/ IsStart(task[s].log[j], "main"))

\* C5: with bail-on-failure enabled and a dataset present, no step is
\* executed for a row after row i once a step of row i has failed.
C5_RowFailureHalts ==
    cfg.bail_on_failure =>
        \A s \in DOMAIN task : \A i, j \in DOMAIN task[s].log :
            (i < j /\ IsSome(Config(s).dataset) /\ IsFailedEnd(task[s].log[i], "main"))
                => ~(IsStart(task[s].log[j], "main")
                        /\ task[s].log[j].row > task[s].log[i].row)

\* a suite result with failed > 0 has been collected
FailedCollected == \E n \in 1..Len(run.all_results) : run.all_results[n].failed > 0

\* run_tests has returned what was collected up to and including the first
\* suite result with a failure
ReturnedAtFailure ==
    /\ run.pc = "ok"
    /\ run.all_results[Len(run.all_results)].failed > 0
    /\ \A n \in 1..(Len(run.all_results) - 1) : run.all_results[n].failed = 0

\* C6: in multi-suite execution with bail-on-failure enabled, once a suite
\* result with failed > 0 has been collected no suite that was not started
\* is started, and run_tests returns the suite results collected up to and
\* including the failing one.
C6_NoSuiteAfterFailure ==
    /\ []((MultiSuite /\ cfg.bail_on_failure /\ FailedCollected) => ReturnedAtFailure)
    /\ [][(MultiSuite /\ cfg.bail_on_failure /\ FailedCollected) =>
              \A s \in DOMAIN task : NotStarted(task[s]) => NotStarted(task'[s])]_allVars

\* run_tests returned at a failing suite of the first chunk of three suites
\* run two at a time, the third suite never started
C6_Witness ==
    /\ MultiSuite
    /\ cfg.bail_on_failure
    /\ cfg.parallel_workers > 1
    /\ ReturnedAtFailure
    /\ Len(cfg.suites) = 3
    /\ task[3].phase = "idle"

\* C7: every TestSuiteResult that run_tests produces has passed + failed equal
\* to the number of its results, passed being the number of results with
\* passed = true.
C7_PassedPlusFailed ==
    \A n \in 1..Len(run.all_results) :
        /\ run.all_results[n].passed + run.all_results[n].failed
              = Len(run.all_results[n].results)
        /\ run.all_results[n].passed
              = Cardinality({m \in 1..Len(run.all_results[n].results) :
                                run.all_results[n].results[m].passed})

\* suites run in parallel produced a result with passes and failures
C7_Witness ==
    /\ MultiSuite
    /\ cfg.parallel_workers > 1
    /\ run.pc = "ok"
    /\ \E n \in 1..Len(run.all_results) :
          run.all_results[n].passed > 0 /\ run.all_results[n].failed > 0

\* the execute_test events of the main steps of row `row`
RowEvents(log, row) == SelectSeq(log, LAMBDA ev : ev.ph = "main" /\ ev.row = row)

\* the position in `filtered` of step number idx
PosOf(filtered, idx) == CHOOSE q \in DOMAIN filtered : filtered[q] = idx

\* the chunk, counted from 0, of the step at position q when chunks hold P steps
ChunkOf(q, P) == (q - 1) \div P

\* the execute_test calls in flight after the first j events
InFlightAfter(events, j) ==
    Cardinality({i \in 1..j : events[i].e = "start"})
        - Cardinality({i \in 1..j : events[i].e \in {"end", "drop"}})

\* the steps were started in declared order; a step was started only after
\* the result of every step of an earlier chunk was collected; and no more
\* than P steps were in flight at any time
ChunkedDispatch(events, filtered, P) ==
    /\ LET started == SelectSeq(events, LAMBDA ev : ev.e = "start") IN
          /\ Len(started) <= Len(filtered)
          /\ StepsOf(started) = SubSeq(filtered, 1, Len(started))
    /\ \A j \in DOMAIN events :
          events[j].e = "start" =>
              \A q \in DOMAIN filtered :
                  ChunkOf(q, P) < ChunkOf(PosOf(filtered, events[j].step), P) =>
                      \E i \in 1..(j - 1) :
                          events[i].e = "end" /\ events[i].step = filtered[q]
    /\ \A j \in DOMAIN events : InFlightAfter(events, j) <= P

\* C18: when a step list runs with parallelism P > 1, the filtered steps are
\* dispatched in chunks of at most P in declaration order, no step of a chunk
\* is dispatched before the results of every step of the chunk before it
\* have been collected, and at most P steps of the list are in flight at any
\* time.
C18_ChunksOfAtMostP ==
    \A s \in DOMAIN task :
        /\ (task[s].phase = "main" /\ task[s].frame.parallel > 1) =>
              ChunkedDispatch(RowEvents(task[s].log, task[s].row),
                              task[s].frame.filtered, task[s].frame.parallel)
        /\ \A n \in 1..Len(task[s].returns) :
              task[s].returns[n].parallel > 1 =>
                  ChunkedDispatch(RowEvents(task[s].log, task[s].returns[n].row),
                                  task[s].returns[n].filtered,
                                  task[s].returns[n].parallel)

\* three steps ran two at a time: two were in flight together, and the third
\* was started after both results were collected
C18_Witness ==
    \E s \in DOMAIN task : \E n \in 1..Len(task[s].returns) :
        /\ task[s].returns[n].parallel = 2
        /\ Len(task[s].returns[n].filtered) = 3
        /\ Len(task[s].returns[n].results) = 3
        /\ \E j \in DOMAIN RowEvents(task[s].log, task[s].returns[n].row) :
              InFlightAfter(RowEvents(task[s].log, task[s].returns[n].row), j) = 2

\* the name of a step contains the filter substring, or there is no filter
PassesFilter(name) ==
    cfg.filter_pattern = None \/ Contains(name, cfg.filter_pattern.some)

\* the names, each after `prefix`, of the steps of `steps` that pass the
\* filter, in declared order
PassingNames(steps, prefix) ==
    LET passing == SelectSeq(steps, LAMBDA step : PassesFilter(step.name)) IN
    [n \in 1..Len(passing) |-> prefix \o passing[n].name]

\* the step an execute_test event of suite s is about
EventStep(s, ev) ==
    IF ev.ph = "main" THEN Config(s).tests[ev.step]
    ELSE BlockSteps(Config(s), ev.ph)[ev.step]

\* run_single_suite returned Ok for suite s, which ran its steps one at a
\* time, has no dataset, and ran without bail
SequentialPlainSuiteDone(s) ==
    /\ task[s].phase \in {"done", "collected"}
    /\ task[s].workers <= 1
    /\ Config(s).dataset = None
    /\ ~cfg.bail_on_failure

\* C19: for a suite run sequentially without a dataset and without bail, the
\* result list is one result per setup step passing the name filter, in
\* declared order, then one per main step passing it, then one per teardown
\* step passing it; a step whose name does not contain the filter substring
\* has no result and is never executed.
C19_ResultsInDeclaredOrder ==
    \A s \in DOMAIN task :
        /\ SequentialPlainSuiteDone(s) =>
              NamesOf(task[s].all_results)
                  = PassingNames(BlockSteps(Config(s), "setup"), <<"Setup: ">>)
                      \o PassingNames(Config(s).tests, <<>>)
                      \o PassingNames(BlockSteps(Config(s), "teardown"), <<"Teardown: ">>)
        /\ \A j \in DOMAIN task[s].log :
              PassesFilter(EventStep(s, task[s].log[j]).name)

\* a suite with two setup steps, three tests and two teardown steps returned
\* four results under the filter "b": it has one more test than setup steps
C19_Witness ==
    \E s \in DOMAIN task :
        /\ SequentialPlainSuiteDone(s)
        /\ cfg.filter_pattern = Some(<<"b">>)
        /\ Len(BlockSteps(Config(s), "setup")) = 2
        /\ Len(Config(s).tests) = 3
        /\ Len(BlockSteps(Config(s), "teardown")) = 2
        /\ Len(task[s].all_results) = 4

\* the bindings of the suite: its vars, no --env being given and the process
\* environment being empty
SuiteBindings(s) == IF Config(s).vars = None THEN EmptyMap ELSE Config(s).vars.some

\* the rows of the data file of suite s
FileRows(s) == Config(s).dataset.some.rows

\* the bindings of the suite with those of row r of the file on top
RowBindings(s, r) ==
    [k \in DOMAIN SuiteBindings(s) \cup DOMAIN FileRows(s)[r] |->
        IF k \in DOMAIN FileRows(s)[r] THEN FileRows(s)[r][k] ELSE SuiteBindings(s)[k]]

\* the numbers of the tests that pass the filter, in declared order
PassingTests(s) ==
    SelectSeq([k \in 1..Len(Config(s).tests) |-> k],
              LAMBDA k : PassesFilter(Config(s).tests[k].name))

\* the rows are processed one after another, in file order: nothing of a row
\* happens after something of a later row
RowsInFileOrder(s) ==
    \A i, j \in DOMAIN task[s].log :
        (i < j /\ task[s].log[i].ph = "main" /\ task[s].log[j].ph = "main")
            => task[s].log[i].row <= task[s].log[j].row

\* every execute_test call for a row was passed the suite's bindings with
\* that row's on top, every other call the suite's bindings; and these are
\* what `context` holds
RowBindingsStayInRow(s) ==
    /\ \A n \in DOMAIN task[s].passed :
          task[s].passed[n].context
              = IF task[s].passed[n].ph = "main" /\ task[s].passed[n].row > 0
                THEN RowBindings(s, task[s].passed[n].row)
                ELSE SuiteBindings(s)
    /\ ~NotStarted(task[s]) => task[s].context = SuiteBindings(s)

\* run_single_suite returned Ok for suite s, which has a dataset
DatasetSuiteDone(s) ==
    /\ task[s].phase \in {"done", "collected"}
    /\ IsSome(Config(s).dataset)

\* a step of row r failed
RowFailed(s, r) ==
    \E j \in DOMAIN task[s].log :
        IsFailedEnd(task[s].log[j], "main") /\ task[s].log[j].row = r

\* the steps started for row r are the first ones of the filtered list
RanPrefix(s, r) ==
    LET started == StepsOf(MainStarted(task[s].log, r)) IN
    /\ Len(started) <= Len(PassingTests(s))
    /\ started = SubSeq(PassingTests(s), 1, Len(started))

\* the steps started for row r are the filtered list
RanInFull(s, r) == StepsOf(MainStarted(task[s].log, r)) = PassingTests(s)

\* C20 as written: with a dataset, rows are processed one after another in
\* file order and the full filtered step list runs once per row, against a
\* clone of the suite context overlaid with that row's bindings, which are
\* visible to no other row, nor to setup or teardown; the base context is
\* unchanged.
C20_AsWritten ==
    \A s \in DOMAIN task :
        /\ RowsInFileOrder(s)
        /\ RowBindingsStayInRow(s)
        /\ DatasetSuiteDone(s) => \A r \in DOMAIN FileRows(s) : RanInFull(s, r)

\* C20 amended: the filtered step list runs once per row, in full unless
\* bail-on-failure is enabled and a step of that row fails: the list of that
\* row then ends early.
C20_RowsRunAgainstOwnClone ==
    \A s \in DOMAIN task :
        /\ RowsInFileOrder(s)
        /\ RowBindingsStayInRow(s)
        /\ DatasetSuiteDone(s) =>
              \A r \in DOMAIN FileRows(s) :
                  IF cfg.bail_on_failure /\ RowFailed(s, r) THEN RanPrefix(s, r)
                  ELSE RanInFull(s, r)

\* a suite with a dataset of two rows returned: a step of row 1 was passed
\* i = "1", a step of row 2 was passed i = "2", and a teardown step after them
\* the suite's i = "0"
C20_Witness ==
    \E s \in DOMAIN task :
        /\ DatasetSuiteDone(s)
        /\ Len(FileRows(s)) = 2
        /\ \E a, b, c \in DOMAIN task[s].passed :
              /\ a < b
              /\ b < c
              /\ task[s].passed[a].row = 1
              /\ task[s].passed[a].context[<<"i">>] = <<"1">>
              /\ task[s].passed[b].row = 2
              /\ task[s].passed[b].context[<<"i">>] = <<"2">>
              /\ task[s].passed[c].ph = "teardown"
              /\ task[s].passed[c].context[<<"i">>] = <<"0">>

\* the execute_test calls of a run_single_suite future that are in flight
InFlight(t) == InFlightAfter(t.log, Len(t.log))

\* the execute_test calls in flight in the suites 1..s
RECURSIVE InFlightUpTo(_)
InFlightUpTo(s) == IF s = 0 THEN 0 ELSE InFlight(task[s]) + InFlightUpTo(s - 1)

\* the execute_test calls in flight, summed over all suites, blocks and rows
TotalInFlight == InFlightUpTo(Len(task))

\* the dataset of `config` declares its own `parallel`
DeclaresParallel(config) ==
    /\ IsSome(config.dataset)
    /\ IsSome(config.dataset.some.parallel)

\* C28 as stated: during run_tests with configured parallelism P >= 1, the
\* number of step executions in flight at any moment, summed over all
\* suites, setup and teardown phases and dataset rows, never exceeds P.
C28_AsWritten == TotalInFlight <= cfg.parallel_workers

\* C28: during run_tests with configured parallelism P >= 1, the number of
\* step executions in flight at any moment, summed over all suites, setup
\* and teardown phases and dataset rows, never exceeds P, provided no loaded
\* suite has a dataset that declares its own `parallel`; a suite whose
\* dataset declares `parallel` = D has at most max(1, D) step executions in
\* flight, whatever P is.
C28_InFlightAtMostP ==
    /\ (\A s \in DOMAIN task : ~DeclaresParallel(Config(s)))
          => TotalInFlight <= cfg.parallel_workers
    /\ \A s \in DOMAIN task :
          DeclaresParallel(Config(s))
              => InFlight(task[s])
                    <= (IF Config(s).dataset.some.parallel.some > 1
                        THEN Config(s).dataset.some.parallel.some ELSE 1)

\* two of three suites run two at a time have a step in flight each
C28_Witness ==
    /\ Len(cfg.suites) = 3
    /\ cfg.parallel_workers = 2
    /\ TotalInFlight = 2
    /\ InFlight(task[1]) = 1
    /\ InFlight(task[2]) = 1

\* a sequential runner has two steps of a row in flight, the dataset
\* declaring `parallel: 2`
C28_DatasetExceedsP ==
    /\ cfg.parallel_workers = 1
    /\ DeclaresParallel(Config(1))
    /\ TotalInFlight = 2

---------------------------------------------------------------------------
(* The context run_single_suite builds (runner/variables.rs): a new        *)
(* context, the process environment, then the vars block of the suite.     *)
(* The block is a HashMap: the loop of with_config_vars visits its         *)
(* entries in the order the map iterates in, which is any order.           *)

\* the names a modelled vars block declares
ConfigNames == {<<"a">>, <<"b">>}

\* the values a modelled vars block declares: plain text, text that
\* references a, text that references b
ConfigValues ==
    {<<"1">>, VarPlaceholder(<<"a">>) \o <<"x">>, VarPlaceholder(<<"b">>)}

\* the vars blocks of a suite file: the names in the order the file declares
\* them, and the map the block is deserialized into
ConfigBlocks ==
    UNION {{[declared |-> d, map |-> m] : d \in Orders(K), m \in [K -> ConfigValues]} :
              K \in SUBSET ConfigNames}

\* VariableContext::new() in some process environment
InitConfigVars ==
    /\ vars = EmptyMap
    /\ penv \in {e \in PartialMaps(EnvNames, EnvValues) : Cardinality(DOMAIN e) <= 1}
    /\ subIn = <<>>
    /\ subOut = <<>>
    /\ subPc = "new"
    /\ built = None
    /\ ExecOff
    /\ RunnerOff
    /\ PerfOff

\* ctx.with_env_vars()
WithEnvVars ==
    /\ subPc = "new"
    /\ vars' = with_env_vars(vars, penv)
    /\ subPc' = "env"
    /\ UNCHANGED <<penv, subIn, subOut, built, execVars, runnerVars, perfVars>>

\* ctx.with_config_vars(config.vars.as_ref()), the map iterating in `order`
WithConfigVars(config_vars, declared, order) ==
    /\ subPc = "env"
    /\ vars' = with_config_vars(vars, config_vars, order, penv)
    /\ built' = [config_vars |-> config_vars, declared |-> declared, order |-> order,
                 base |-> vars]
    /\ subPc' = "idle"
    /\ UNCHANGED <<penv, subIn, subOut, execVars, runnerVars, perfVars>>

NextConfigVars ==
    \/ WithEnvVars
    \/ WithConfigVars(None, <<>>, <<>>)
    \/ \E block \in ConfigBlocks : \E order \in Orders(DOMAIN block.map) :
          WithConfigVars(Some(block.map), block.declared, order)
    \/ \E t \in Texts : Substitute(t)

SpecConfigVars == InitConfigVars /\ [][NextConfigVars]_allVars

---------------------------------------------------------------------------
(* Claims about the context run_single_suite builds.                       *)

\* a vars block was merged into the context
Merged == built # None /\ IsSome(built.config_vars)

\* `value` references the variable `name`
References(value, name) == Contains(value, VarPlaceholder(name))

\* the context the merge gives when every value is resolved after the
\* values declared before it
DeclaredOrderContext ==
    with_config_vars(built.base, built.config_vars, built.declared, penv)

\* C21: merging suite-declared variables resolves each declared value against
\* the context as built so far: when the value of b references a variable a
\* declared earlier in the same vars block, the resulting context binds b to
\* the text with a's resolved value substituted, for every such pair.
C21_ChainingWithinVarsBlock ==
    Merged =>
        \A i, j \in DOMAIN built.declared :
            (i < j /\ References(built.config_vars.some[built.declared[j]],
                                 built.declared[i]))
                => vars[built.declared[j]] = DeclaredOrderContext[built.declared[j]]

\* the block `a: 1, b: {{a}}x` was merged with the map iterating b first, and
\* b is bound to the unresolved text
C21_ChainBroken ==
    /\ Merged
    /\ built.declared = <<(<<"a">>), (<<"b">>)>>
    /\ built.order = <<(<<"b">>), (<<"a">>)>>
    /\ built.config_vars.some[<<"a">>] = <<"1">>
    /\ built.base = EmptyMap
    /\ vars[<<"b">>] = VarPlaceholder(<<"a">>) \o <<"x">>

\* in an iteration that visits the entries as declared, chaining works
C21_HoldsInDeclaredOrder ==
    (Merged /\ built.order = built.declared) =>
        \A i, j \in DOMAIN built.declared :
            (i < j /\ References(built.config_vars.some[built.declared[j]],
                                 built.declared[i]))
                => vars[built.declared[j]] = DeclaredOrderContext[built.declared[j]]

---------------------------------------------------------------------------
(* Performance metrics (performance/metrics.rs).                           *)
(*                                                                         *)
(* A Duration is a number of time units. An f64 quotient a / b is kept as  *)
(* the fraction [num |-> a, den |-> b], and 0.0 as the fraction 0 / 1. A   *)
(* u64 computed with wrapping arithmetic is kept as the integer it is      *)
(* congruent to modulo 2^64: a negative number n stands for 2^64 + n.      *)

\* the largest number of record_request and record_connection_error calls
MaxRecords == 3

\* the response times of the modelled requests
Durations == {1, 2, 3}

\* the status codes of the modelled requests
StatusCodes == {200, 500}

\* the sizes of the modelled request and response bodies
BytesSent == {100}

BytesReceived == {0, 2}

\* what start_time.elapsed() can be when calculate_results is called
Elapsed == {1, 2}

\* an f64 quotient
F64Div(a, b) == [num |-> a, den |-> b]

\* 0.0
F64Zero == [num |-> 0, den |-> 1]

\* PerformanceMetrics::new
NewMetrics ==
    [response_times |-> <<>>,
     error_count |-> 0,
     request_count |-> 0,
     status_codes |-> [c \in {} |-> 0],
     bytes_sent |-> 0,
     bytes_received |-> 0,
     connection_errors |-> 0]

\* `*self.status_codes.entry(status_code).or_insert(0) += 1`
CountStatus(status_codes, status_code) ==
    [c \in DOMAIN status_codes \cup {status_code} |->
        (IF c \in DOMAIN status_codes THEN status_codes[c] ELSE 0)
            + (IF c = status_code THEN 1 ELSE 0)]

\* PerformanceMetrics::record_request
record_request(m, response_time, status_code, bytes_sent, bytes_received, is_error) ==
    [m EXCEPT !.response_times = Append(@, response_time),
              !.request_count = @ + 1,
              !.bytes_sent = @ + bytes_sent,
              !.bytes_received = @ + bytes_received,
              !.status_codes = CountStatus(@, status_code),
              !.error_count = IF is_error THEN @ + 1 ELSE @]

\* a record_connection_error that leaves error_count alone
record_connection_errorUncounted(m) ==
    [m EXCEPT !.connection_errors = @ + 1]

\* PerformanceMetrics::record_connection_error
record_connection_error(m) ==
    [m EXCEPT !.connection_errors = @ + 1,
              !.error_count = @ + 1]

\* `*self.status_codes.entry(*status).or_insert(0) += count` for every
\* entry of other's histogram
MergeStatus(status_codes, other) ==
    [c \in DOMAIN status_codes \cup DOMAIN other |->
        (IF c \in DOMAIN status_codes THEN status_codes[c] ELSE 0)
            + (IF c \in DOMAIN other THEN other[c] ELSE 0)]

\* PerformanceMetrics::merge
merge(m, other) ==
    [response_times |-> m.response_times \o other.response_times,
     error_count |-> m.error_count + other.error_count,
     request_count |-> m.request_count + other.request_count,
     status_codes |-> MergeStatus(m.status_codes, other.status_codes),
     bytes_sent |-> m.bytes_sent + other.bytes_sent,
     bytes_received |-> m.bytes_received + other.bytes_received,
     connection_errors |-> m.connection_errors + other.connection_errors]

\* x put into an ascending sequence, after the elements equal to it
RECURSIVE Insert(_, _)
Insert(sorted, x) ==
    IF sorted = <<>> THEN <<x>>
    ELSE IF x < Head(sorted) THEN <<x>> \o sorted
    ELSE <<Head(sorted)>> \o Insert(Tail(sorted), x)

\* `sorted_times.sort()`
RECURSIVE Sort(_)
Sort(times) ==
    IF times = <<>> THEN <<>> ELSE Insert(Sort(SubSeq(times, 1, Len(times) - 1)),
                                          times[Len(times)])

RECURSIVE Sum(_)
Sum(times) == IF times = <<>> THEN 0 ELSE Head(times) + Sum(Tail(times))

\* `sorted_times.get(index).copied().unwrap_or(Duration::ZERO)`, the index
\* counted from 0
GetOrZero(sorted_times, index) ==
    IF index < Len(sorted_times) THEN sorted_times[index + 1] ELSE 0

\* `sorted_times.len() * p / 100`
PercentileIndex(len, p) == (len * p) \div 100

\* `if total_requests > 0 { (total_requests - self.error_count) / total_requests }`
SuccessRate(total_requests, error_count) ==
    IF total_requests > 0 THEN F64Div(total_requests - error_count, total_requests)
    ELSE F64Zero

\* what calculate_results returns while no response time is recorded
EmptyResults(m, total_requests, total_duration) ==
    [total_requests |-> total_requests,
     successful_requests |-> 0,
     failed_requests |-> m.error_count,
     success_rate |-> F64Zero,
     requests_per_second |-> F64Zero,
     average_response_time |-> 0,
     min_response_time |-> 0,
     max_response_time |-> 0,
     p50_response_time |-> 0,
     p95_response_time |-> 0,
     p99_response_time |-> 0,
     status_code_distribution |-> m.status_codes,
     bytes_per_second_sent |-> F64Zero,
     bytes_per_second_received |-> F64Zero,
     connection_errors |-> m.connection_errors,
     total_duration |-> total_duration]

\* what calculate_results returns from line 90 on
FullResults(m, sorted_times, total_requests, total_duration) ==
    [total_requests |-> total_requests,
     successful_requests |-> m.request_count - m.error_count + m.connection_errors,
     failed_requests |-> m.error_count,
     success_rate |-> SuccessRate(total_requests, m.error_count),
     requests_per_second |-> F64Div(total_requests, total_duration),
     average_response_time |-> Sum(sorted_times) \div Len(sorted_times),
     min_response_time |-> GetOrZero(sorted_times, 0),
     max_response_time |-> GetOrZero(sorted_times, Len(sorted_times) - 1),
     p50_response_time |-> GetOrZero(sorted_times, PercentileIndex(Len(sorted_times), 50)),
     p95_response_time |-> GetOrZero(sorted_times, PercentileIndex(Len(sorted_times), 95)),
     p99_response_time |-> GetOrZero(sorted_times, PercentileIndex(Len(sorted_times), 99)),
     status_code_distribution |-> m.status_codes,
     bytes_per_second_sent |-> F64Div(m.bytes_sent, total_duration),
     bytes_per_second_received |-> F64Div(m.bytes_received, total_duration),
     connection_errors |-> m.connection_errors,
     total_duration |-> total_duration]

\* calculate_results panicked: "attempt to subtract with overflow"
Panicked == [panic |-> TRUE]

\* `self.request_count - self.error_count` of line 93 overflows u64: a panic
\* in a build with overflow checks, a wrapped difference in one without
SubtractOverflows(m) == m.request_count < m.error_count

\* PerformanceMetrics::calculate_results, total_duration being what
\* start_time.elapsed() returns
calculate_results(m, total_duration, overflow_checks) ==
    IF m.response_times = <<>>
    THEN Some(EmptyResults(m, m.request_count + m.connection_errors, total_duration))
    ELSE IF overflow_checks /\ SubtractOverflows(m) THEN Panicked
    ELSE Some(FullResults(m, Sort(m.response_times),
                          m.request_count + m.connection_errors, total_duration))

\* no call is recorded yet
NoCalls == <<>>

\* the calls made on the metrics so far
RecordedCalls == metrics.calls

\* a PerformanceMetrics in a build with or without overflow checks
InitMetrics ==
    /\ vars = EmptyMap
    /\ penv = EmptyMap
    /\ SubstOff
    /\ ExecOff
    /\ RunnerOff
    /\ RunOff
    /\ build \in [overflow_checks : BOOLEAN]
    /\ metrics = [state |-> NewMetrics, calls |-> NoCalls]
    /\ perfResults = None
    /\ controller = None
    /\ load = None

\* the caller of calculate_results has not panicked
MetricsLive == perfResults # Panicked

\* metrics.record_request(response_time, status_code, bytes_sent, bytes_received, is_error)
RecordRequest(response_time, status_code, bytes_sent, bytes_received, is_error) ==
    /\ MetricsLive
    /\ Len(metrics.calls) < MaxRecords
    /\ metrics' = [state |-> record_request(metrics.state, response_time, status_code,
                                            bytes_sent, bytes_received, is_error),
                   calls |-> Append(metrics.calls,
                                    [op |-> "record_request",
                                     response_time |-> response_time,
                                     is_error |-> is_error])]
    /\ perfResults' = None
    /\ UNCHANGED <<substVars, execVars, runnerVars, runVars, build, controller, load>>

\* metrics.record_connection_error()
RecordConnectionError ==
    /\ MetricsLive
    /\ Len(metrics.calls) < MaxRecords
    /\ metrics' = [state |-> record_connection_error(metrics.state),
                   calls |-> Append(metrics.calls,
                                    [op |-> "record_connection_error",
                                     response_time |-> 0,
                                     is_error |-> TRUE])]
    /\ perfResults' = None
    /\ UNCHANGED <<substVars, execVars, runnerVars, runVars, build, controller, load>>

\* the metrics another collector can hold: new, or after one call
OtherMetrics ==
    {[state |-> NewMetrics, calls |-> NoCalls],
     [state |-> record_connection_error(NewMetrics),
      calls |-> <<[op |-> "record_connection_error", response_time |-> 0,
                   is_error |-> TRUE]>>]}
        \cup {[state |-> record_request(NewMetrics, x[1], x[2], x[3], x[4], x[5]),
                calls |-> <<[op |-> "record_request", response_time |-> x[1],
                             is_error |-> x[5]]>>] :
                 x \in Durations \X StatusCodes \X BytesSent \X BytesReceived \X BOOLEAN}

\* metrics.merge(&other): the calls made on other count as made on metrics
Merge(other) ==
    /\ MetricsLive
    /\ Len(metrics.calls) + Len(other.calls) <= MaxRecords
    /\ metrics' = [state |-> merge(metrics.state, other.state),
                   calls |-> metrics.calls \o other.calls]
    /\ perfResults' = None
    /\ UNCHANGED <<substVars, execVars, runnerVars, runVars, build, controller, load>>

\* metrics.calculate_results()
CalculateResults(total_duration) ==
    /\ MetricsLive
    /\ perfResults' = calculate_results(metrics.state, total_duration,
                                        build.overflow_checks)
    /\ UNCHANGED <<substVars, execVars, runnerVars, runVars, build, metrics, controller, load>>

NextMetrics ==
    \/ \E response_time \in Durations, status_code \in StatusCodes,
          bytes_sent \in BytesSent, bytes_received \in BytesReceived,
          is_error \in BOOLEAN :
          RecordRequest(response_time, status_code, bytes_sent, bytes_received, is_error)
    \/ RecordConnectionError
    \/ \E other \in OtherMetrics : Merge(other)
    \/ \E total_duration \in Elapsed : CalculateResults(total_duration)

SpecMetrics == InitMetrics /\ [][NextMetrics]_allVars

---------------------------------------------------------------------------
(* Claims about the performance metrics.                                   *)

\* calculate_results was called on the metrics as they are
Calculated == perfResults # None

\* that call returned
Returned == IsSome(perfResults)

\* the record_request calls made so far
RequestCalls == SelectSeq(RecordedCalls, LAMBDA c : c.op = "record_request")

\* the number of record_request calls
Requests == Len(RequestCalls)

\* the number of record_request calls with is_error
ErrorRequests == Len(SelectSeq(RequestCalls, LAMBDA c : c.is_error))

\* the number of record_connection_error calls
ConnectionErrors == Len(RecordedCalls) - Requests

\* the fractions a / b and c / d are the same number
SameFraction(a, b, c, d) == b # 0 /\ d # 0 /\ a * d = c * b

\* the success rate r is (total - failed) / total, and 0 when total is 0
IsSuccessRate(r, total, failed) ==
    IF total = 0 THEN r.num = 0 /\ r.den # 0
    ELSE SameFraction(r.num, r.den, total - failed, total)

\* C13: for any sequence of record_request and record_connection_error
\* calls, calculate_results reports total_requests = the number of
\* record_request calls + the number of record_connection_error calls,
\* failed_requests = the number of record_request calls with is_error + the
\* number of connection errors, and success_rate = (total_requests -
\* failed_requests) / total_requests, 0 when nothing was recorded.
C13_TotalsCountConnectionErrors ==
    Calculated =>
        /\ Returned
        /\ perfResults.some.total_requests = Requests + ConnectionErrors
        /\ perfResults.some.failed_requests = ErrorRequests + ConnectionErrors
        /\ IsSuccessRate(perfResults.some.success_rate,
                         Requests + ConnectionErrors, ErrorRequests + ConnectionErrors)

\* whenever calculate_results returns, it reports what C13 says
C13_HoldsWhenReturned ==
    (Calculated /\ Returned) =>
        /\ perfResults.some.total_requests = Requests + ConnectionErrors
        /\ perfResults.some.failed_requests = ErrorRequests + ConnectionErrors
        /\ IsSuccessRate(perfResults.some.success_rate,
                         Requests + ConnectionErrors, ErrorRequests + ConnectionErrors)

\* calculate_results panicked after one failed request and one connection
\* error were recorded
C13_PanicReached ==
    /\ perfResults = Panicked
    /\ Requests = 1
    /\ ErrorRequests = 1
    /\ ConnectionErrors = 1

\* the durations recorded so far, in the order they were recorded
RecordedDurations == [n \in 1..Requests |-> RequestCalls[n].response_time]

Occurrences(t, d) == Cardinality({n \in DOMAIN t : t[n] = d})

\* q holds the elements of t, as often as t holds them, in ascending order
IsSortedPermutation(q, t) ==
    /\ \A n \in 1..(Len(q) - 1) : q[n] <= q[n + 1]
    /\ \A d \in Durations : Occurrences(q, d) = Occurrences(t, d)

\* the recorded durations sorted ascending
SortedSamples ==
    CHOOSE q \in [1..Requests -> Durations] : IsSortedPermutation(q, RecordedDurations)

\* the percentile p that results r report
ReportedPercentile(r, p) ==
    IF p = 50 THEN r.p50_response_time
    ELSE IF p = 95 THEN r.p95_response_time
    ELSE r.p99_response_time

\* results r report the percentiles, the minimum and the maximum of `sorted`
ExactPercentiles(r, sorted) ==
    /\ \A p \in {50, 95, 99} :
          /\ (Len(sorted) * p) \div 100 < Len(sorted)
          /\ ReportedPercentile(r, p) = sorted[(Len(sorted) * p) \div 100 + 1]
    /\ r.min_response_time = sorted[1]
    /\ r.max_response_time = sorted[Len(sorted)]

\* C14: for every non-empty multiset of recorded durations, calculate_results
\* returns p50, p95 and p99 equal to the element at index
\* floor(len * p / 100) of the samples sorted ascending, that index being
\* within bounds, and min and max equal to the first and the last sorted
\* element.
C14_PercentilesByIndex ==
    (Calculated /\ Requests > 0) =>
        /\ Returned
        /\ ExactPercentiles(perfResults.some, SortedSamples)

\* whenever calculate_results returns, it reports what C14 says
C14_HoldsWhenReturned ==
    (Calculated /\ Requests > 0 /\ Returned) =>
        ExactPercentiles(perfResults.some, SortedSamples)

\* calculate_results returned the percentiles of three durations recorded out
\* of order
C14_PercentilesReached ==
    /\ Calculated
    /\ Returned
    /\ RecordedDurations = <<3, 1, 2>>
    /\ perfResults.some.p50_response_time = 2
    /\ perfResults.some.p99_response_time = 3

\* C26: for every metrics state reachable through record_request and
\* record_connection_error, in particular with more connection errors than
\* successful requests, calculate_results completes without unsigned
\* underflow or overflow and returns successful_requests + failed_requests
\* = total_requests.
C26_NoUnderflowInResults ==
    Calculated =>
        /\ Returned
        /\ metrics.state.response_times # <<>> => ~SubtractOverflows(metrics.state)
        /\ perfResults.some.successful_requests + perfResults.some.failed_requests
              = perfResults.some.total_requests

\* the difference of line 93 wrapped in a build without overflow checks,
\* after one successful request and two connection errors
C26_WrappedReached ==
    /\ Returned
    /\ ~build.overflow_checks
    /\ SubtractOverflows(metrics.state)
    /\ Requests = 1
    /\ ErrorRequests = 0
    /\ ConnectionErrors = 2

\* the sum of the counts of a status-code histogram
RECURSIVE HistogramTotal(_)
HistogramTotal(status_codes) ==
    IF DOMAIN status_codes = {} THEN 0
    ELSE LET c == CHOOSE x \in DOMAIN status_codes : TRUE
         IN status_codes[c]
              + HistogramTotal([x \in DOMAIN status_codes \ {c} |-> status_codes[x]])

\* the f64 r lies in [0, 1]
InUnitInterval(r) == r.den > 0 /\ 0 <= r.num /\ r.num <= r.den

\* C27: after any sequence of record_request and record_connection_error
\* calls on a fresh PerformanceMetrics, request_count equals the number of
\* response-time samples and the sum of the status-code histogram counts,
\* and connection_errors <= error_count <= request_count +
\* connection_errors; a success_rate that calculate_results returns lies in
\* [0, 1].
C27_CountersConsistent ==
    /\ metrics.state.request_count = Len(metrics.state.response_times)
    /\ metrics.state.request_count = HistogramTotal(metrics.state.status_codes)
    /\ metrics.state.connection_errors <= metrics.state.error_count
    /\ metrics.state.error_count
          <= metrics.state.request_count + metrics.state.connection_errors
    /\ Returned => InUnitInterval(perfResults.some.success_rate)

\* a successful request, a failed request and a connection error were
\* recorded, and calculate_results returned
C27_Witness ==
    /\ Returned
    /\ Requests = 2
    /\ ErrorRequests = 1
    /\ ConnectionErrors = 1
    /\ DOMAIN metrics.state.status_codes = {200, 500}

---------------------------------------------------------------------------
(* The load controller (performance/patterns.rs).                          *)
(*                                                                         *)
(* Durations are whole seconds here. An f64 is again a fraction: n / 0     *)
(* with n > 0 is +infinity and 0 / 0 is NaN.                               *)

\* the longest time after LoadController::new at which the controller is asked
MaxElapsed == 36

\* the steps in which time passes
TimeSteps == {1, 5, 10}

\* --pattern
LoadPatterns == {"Constant", "RampUp", "Spike"}

\* --rps: absent, or 0, 3, 100, 2000 requests per second
TargetRps == {None, Some(0), Some(3), Some(100), Some(2000)}

\* --concurrent, any u32: none, one, ten, and the smallest number of users
\* whose tenfold is no u32
ConcurrentUsers == {0, 1, 10, 429496730}

\* 2^16: a u32 (`concurrent_users: u32`) is two halves of sixteen bits, and
\* 2^32 is U32Half * U32Half
U32Half == 65536

\* --warmup
WarmupDurations == {0, 5, 10}

\* `Duration::from_secs(30)`, the length of a spike cycle
CycleSeconds == 30

\* `cycle_elapsed < 5.0`, the length of the spike of a cycle
SpikeSeconds == 5

\* `1000.0`, the milliseconds of a second
MillisPerSecond == 1000

\* `n as f64`
F64Of(n) == [num |-> n, den |-> 1]

\* a * b in f64
F64Mul(a, b) == [num |-> a.num * b.num, den |-> a.den * b.den]

\* a / b in f64
F64Quot(a, b) == [num |-> a.num * b.den, den |-> a.den * b.num]

\* Duration::from_millis(f as u64), f not negative: the cast truncates, turns
\* NaN into 0 and saturates +infinity at u64::MAX (`saturated`, millis unused)
DurationFromMillisF64(f) ==
    IF f.den = 0
    THEN [millis |-> 0, saturated |-> f.num # 0]
    ELSE [millis |-> f.num \div f.den, saturated |-> FALSE]

\* `concurrent_users * 10` by halves: ten times the low half of the users
TenfoldLow(users) == (users % U32Half) * 10

\* ten times the high half, and what the low half carries into it
TenfoldHigh(users) ==
    ((users \div U32Half) * 10) + (TenfoldLow(users) \div U32Half)

\* `self.concurrent_users * 10` is no u32: the product is 2^32 or more. It is
\* the argument of unwrap_or, so it is computed whether or not a target is
\* configured
BaseRpsOverflows(c) == TenfoldHigh(c.concurrent_users) >= U32Half

\* `self.target_rps.unwrap_or(self.concurrent_users * 10) as f64` when the
\* u32 product does not panic: without overflow checks it wraps, and the
\* result is the product modulo 2^32
BaseRps(c) ==
    IF IsSome(c.target_rps) THEN c.target_rps.some
    ELSE ((TenfoldHigh(c.concurrent_users) % U32Half) * U32Half)
            + (TenfoldLow(c.concurrent_users) % U32Half)

\* a RampUp arm that is at the base rate from the start
RampUpRpsNoRamp(c, base_rps, elapsed) == F64Of(base_rps)

\* the RampUp arm of current_target_rps
RampUpRps(c, base_rps, elapsed) ==
    IF elapsed < c.warmup_duration
    THEN F64Mul(F64Of(base_rps), F64Quot(F64Of(elapsed), F64Of(c.warmup_duration)))
    ELSE F64Of(base_rps)

\* the Spike arm of current_target_rps
SpikeRps(base_rps, elapsed) ==
    IF elapsed % CycleSeconds < SpikeSeconds
    THEN F64Mul(F64Of(base_rps), F64Of(2))
    ELSE F64Of(base_rps)

\* LoadController::current_target_rps, `elapsed` being test_start.elapsed():
\* with overflow checks the product of line 40 panics when it is no u32
current_target_rps(c, elapsed, overflow_checks) ==
    IF overflow_checks /\ BaseRpsOverflows(c) THEN Panicked
    ELSE IF c.pattern = "Constant" THEN F64Of(BaseRps(c))
    ELSE IF c.pattern = "RampUp" THEN RampUpRps(c, BaseRps(c), elapsed)
    ELSE SpikeRps(BaseRps(c), elapsed)

\* LoadController::request_delay: the closure of `map` runs only when a
\* target is configured, and a panic of current_target_rps is its panic
request_delay(c, elapsed, overflow_checks) ==
    IF IsSome(c.target_rps)
    THEN IF current_target_rps(c, elapsed, overflow_checks) = Panicked
         THEN Panicked
         ELSE Some(DurationFromMillisF64(
                       F64Quot(F64Of(MillisPerSecond),
                               current_target_rps(c, elapsed, overflow_checks))))
    ELSE None

\* LoadController::new
NewController(pattern, target_rps, concurrent_users, warmup_duration) ==
    [pattern |-> pattern,
     target_rps |-> target_rps,
     concurrent_users |-> concurrent_users,
     warmup_duration |-> warmup_duration]

\* a LoadController that was just built, test_start being now, in a build
\* with or without overflow checks
InitPatterns ==
    /\ vars = EmptyMap
    /\ penv = EmptyMap
    /\ SubstOff
    /\ ExecOff
    /\ RunnerOff
    /\ RunOff
    /\ build \in [overflow_checks : BOOLEAN]
    /\ metrics = None
    /\ perfResults = None
    /\ \E pattern \in LoadPatterns, target_rps \in TargetRps,
          concurrent_users \in ConcurrentUsers, warmup_duration \in WarmupDurations :
          controller = [c |-> NewController(pattern, target_rps, concurrent_users,
                                            warmup_duration),
                        elapsed |-> 0,
                        called |-> "none",
                        out |-> None]
    /\ load = None

\* time passes
Advance(d) ==
    /\ controller.elapsed + d <= MaxElapsed
    /\ controller' = [controller EXCEPT !.elapsed = @ + d,
                                        !.called = "none",
                                        !.out = None]
    /\ UNCHANGED <<substVars, execVars, runnerVars, runVars, build, metrics, perfResults, load>>

\* controller.current_target_rps()
CurrentTargetRps ==
    /\ controller' = [controller EXCEPT
                         !.called = "current_target_rps",
                         !.out = current_target_rps(controller.c, controller.elapsed,
                                                   build.overflow_checks)]
    /\ UNCHANGED <<substVars, execVars, runnerVars, runVars, build, metrics, perfResults, load>>

\* controller.request_delay()
RequestDelay ==
    /\ controller' = [controller EXCEPT
                         !.called = "request_delay",
                         !.out = request_delay(controller.c, controller.elapsed,
                                              build.overflow_checks)]
    /\ UNCHANGED <<substVars, execVars, runnerVars, runVars, build, metrics, perfResults, load>>

NextPatterns ==
    \/ \E d \in TimeSteps : Advance(d)
    \/ CurrentTargetRps
    \/ RequestDelay

SpecPatterns == InitPatterns /\ [][NextPatterns]_allVars

---------------------------------------------------------------------------
(* Claims about the load controller.                                       *)

\* the f64 f is the whole number n
IsWhole(f, n) == f.den # 0 /\ f.num = n * f.den

\* the f64 f is ten times the whole number n
IsTenfold(f, n) ==
    /\ f.den # 0
    /\ f.num % f.den = 0
    /\ (f.num \div f.den) % 10 = 0
    /\ (f.num \div f.den) \div 10 = n

\* the f64 f is the configured target, or ten times the concurrency when
\* none is configured
IsConfiguredRps(f) ==
    IF controller.c.target_rps = None
    THEN IsTenfold(f, controller.c.concurrent_users)
    ELSE IsWhole(f, controller.c.target_rps.some)

CalledTargetRps == controller.called = "current_target_rps"

CalledRequestDelay == controller.called = "request_delay"

\* the call of the controller came back with a value
ControllerReturned == controller.out # Panicked

\* under the Constant pattern current_target_rps returned the configured
\* target, and request_delay returned None exactly when none is configured
ConstantTargetAndPresence ==
    /\ CalledTargetRps => (ControllerReturned /\ IsConfiguredRps(controller.out))
    /\ CalledRequestDelay =>
          (ControllerReturned /\ (controller.out = None <=> controller.c.target_rps = None))

\* C15: under the Constant pattern current_target_rps is the configured
\* target, or concurrency x 10 when none was given, at every elapsed time;
\* request_delay is absent iff no target was configured, and otherwise
\* equals 1000 ms divided by the target.
C15_AsWritten ==
    controller.c.pattern = "Constant" =>
        /\ ConstantTargetAndPresence
        /\ (CalledRequestDelay /\ IsSome(controller.out)) =>
              /\ ~controller.out.some.saturated
              /\ controller.out.some.millis * controller.c.target_rps.some
                    = MillisPerSecond

\* current_target_rps was asked for the rate of 429496730 users without a
\* target under the Constant pattern: it panicked, or returned 4
C15_TenfoldOverflowed ==
    /\ controller.c.pattern = "Constant"
    /\ controller.c.target_rps = None
    /\ BaseRpsOverflows(controller.c)
    /\ CalledTargetRps
    /\ (ControllerReturned => IsWhole(controller.out, 4))

\* request_delay panicked although a target is configured
C15_DelayPanicked ==
    /\ controller.c.pattern = "Constant"
    /\ IsSome(controller.c.target_rps)
    /\ CalledRequestDelay
    /\ ~ControllerReturned

\* what is left of C15 where `concurrent_users * 10` is a u32: the target is
\* the configured one or the tenfold of the users, the delay is absent iff
\* no target is configured, and otherwise it is 1000 ms divided by the
\* target and truncated to whole milliseconds, 10 ms for a target of 100;
\* for a target of 0 it saturates at u64::MAX milliseconds.
C15_HoldsWithoutOverflow ==
    (controller.c.pattern = "Constant" /\ ~BaseRpsOverflows(controller.c)) =>
        /\ ConstantTargetAndPresence
        /\ (CalledRequestDelay /\ IsSome(controller.out)) =>
              IF controller.c.target_rps.some = 0 THEN controller.out.some.saturated
              ELSE /\ ~controller.out.some.saturated
                   /\ controller.out.some.millis * controller.c.target_rps.some
                         <= MillisPerSecond
                   /\ MillisPerSecond
                         < (controller.out.some.millis + 1) * controller.c.target_rps.some
                   /\ controller.c.target_rps.some = 100 =>
                         controller.out.some.millis = 10

\* the f64 f is less than the whole number n
IsBelow(f, n) == f.den > 0 /\ f.num < n * f.den

\* the base RPS: the `base_rps` that line 40 computes, the configured target
\* or the u32 product of the users and ten
ConfiguredRps == BaseRps(controller.c)

\* current_target_rps returned, under the RampUp pattern, base x (elapsed /
\* warmup) before the end of the warmup and the base from then on
RampsThenHolds ==
    /\ controller.elapsed < controller.c.warmup_duration =>
          SameFraction(controller.out.num, controller.out.den,
                       ConfiguredRps * controller.elapsed, controller.c.warmup_duration)
    /\ controller.elapsed >= controller.c.warmup_duration =>
          IsWhole(controller.out, ConfiguredRps)

\* current_target_rps was called under the RampUp pattern and returned a
\* target (it has none to return when line 40 panics)
CalledRampUp == controller.c.pattern = "RampUp" /\ CalledTargetRps /\ ControllerReturned

C16_Witness ==
    /\ CalledRampUp
    /\ controller.c.target_rps = Some(100)
    /\ controller.c.warmup_duration = 10
    /\ controller.elapsed = 5
    /\ IsWhole(controller.out, 50)

---------------------------------------------------------------------------
(* The load generation of a performance run (performance/runner.rs).       *)
(*                                                                         *)
(* A worker is a task of its own (tokio::spawn): it runs whether or not    *)
(* generate_load is polled, and goes on running when generate_load has     *)
(* returned and dropped its JoinHandle.                                    *)

\* the largest number of concurrent users of a modelled run
MaxWorkers == 3

\* what `futures.next()` yields for a worker task that ended as `status`, and
\* for no worker task
JoinOk == "Some(Ok(Ok(())))"

JoinWorkerError == "Some(Ok(Err(e)))"

JoinFailed == "Some(Err(e))"

JoinNone == "None"

\* the JoinHandle of a worker: worker_task returns Ok(()) when its loop ends,
\* and a panic of the task is the JoinError of its handle
JoinResult(status) == IF status = "ok" THEN JoinOk ELSE JoinFailed

\* a wait loop that stops at the first worker that did not end well
MatchStopsOnFailure(result) ==
    [break |-> result # JoinOk,
     print |-> IF result = JoinWorkerError THEN <<"Worker error">>
               ELSE IF result = JoinFailed THEN <<"Worker task failed">>
               ELSE <<>>]

\* the `match result` of the wait loop: what it prints, and whether it breaks
MatchResult(result) ==
    [break |-> result = JoinNone,
     print |-> IF result = JoinWorkerError THEN <<"Worker error">>
               ELSE IF result = JoinFailed THEN <<"Worker task failed">>
               ELSE <<>>]

\* a PerformanceTestRunner about to call generate_load
InitLoad ==
    /\ vars = EmptyMap
    /\ penv = EmptyMap
    /\ SubstOff
    /\ ExecOff
    /\ RunnerOff
    /\ RunOff
    /\ build = None
    /\ metrics = None
    /\ perfResults = None
    /\ controller = None
    /\ \E concurrent_users \in 0..MaxWorkers :
          load = [concurrent_users |-> concurrent_users,
                  pc |-> "spawn",
                  workers |-> <<>>,
                  taken |-> <<>>,
                  timer |-> "none",
                  exit |-> "none",
                  ret |-> None,
                  printed |-> <<>>]

\* generate_load, lines 142-170: a worker task is spawned for every concurrent
\* user and the test-duration timer is created
SpawnWorkers ==
    /\ load.pc = "spawn"
    /\ load' = [load EXCEPT !.pc = "wait",
                            !.workers = [w \in 1..load.concurrent_users |-> "running"],
                            !.taken = [w \in 1..load.concurrent_users |-> FALSE],
                            !.timer = "armed"]
    /\ UNCHANGED <<substVars, execVars, runnerVars, runVars, build, metrics, perfResults, controller>>

\* worker_task: the loop of worker w ends, `Ok(())`
WorkerReturns(w) ==
    /\ load.workers[w] = "running"
    /\ load' = [load EXCEPT !.workers[w] = "ok"]
    /\ UNCHANGED <<substVars, execVars, runnerVars, runVars, build, metrics, perfResults, controller>>

\* the task of worker w panics
WorkerPanics(w) ==
    /\ load.workers[w] = "running"
    /\ load' = [load EXCEPT !.workers[w] = "panic"]
    /\ UNCHANGED <<substVars, execVars, runnerVars, runVars, build, metrics, perfResults, controller>>

\* `sleep(self.test_duration)` elapses
TimerFires ==
    /\ load.pc = "wait"
    /\ load.timer = "armed"
    /\ load' = [load EXCEPT !.timer = "fired"]
    /\ UNCHANGED <<substVars, execVars, runnerVars, runVars, build, metrics, perfResults, controller>>

\* `break`, and the `Ok(())` of line 198
Break(cause, print) ==
    [load EXCEPT !.pc = "returned",
                 !.exit = cause,
                 !.ret = Ok(<<>>),
                 !.printed = @ \o print]

\* the select! takes the branch of the timer
SelectTimeout ==
    /\ load.pc = "wait"
    /\ load.timer = "fired"
    /\ load' = Break("timeout", <<"Test duration reached">>)
    /\ UNCHANGED <<substVars, execVars, runnerVars, runVars, build, metrics, perfResults, controller>>

\* the loop after `match result`
AfterMatch(l, m) ==
    IF m.break THEN [l EXCEPT !.pc = "returned",
                              !.exit = "workers",
                              !.ret = Ok(<<>>),
                              !.printed = @ \o m.print]
    ELSE [l EXCEPT !.printed = @ \o m.print]

\* the select! takes the branch of `futures.next()`, which yields the result
\* of worker w
SelectNext(w) ==
    /\ load.pc = "wait"
    /\ load.workers[w] # "running"
    /\ ~load.taken[w]
    /\ load' = AfterMatch([load EXCEPT !.taken[w] = TRUE],
                          MatchResult(JoinResult(load.workers[w])))
    /\ UNCHANGED <<substVars, execVars, runnerVars, runVars, build, metrics, perfResults, controller>>

\* the select! takes the branch of `futures.next()`, which yields None: no
\* handle is left in `futures`
SelectNone ==
    /\ load.pc = "wait"
    /\ \A w \in DOMAIN load.taken : load.taken[w]
    /\ load' = AfterMatch(load, MatchResult(JoinNone))
    /\ UNCHANGED <<substVars, execVars, runnerVars, runVars, build, metrics, perfResults, controller>>

NextLoad ==
    \/ SpawnWorkers
    \/ \E w \in DOMAIN load.workers : WorkerReturns(w)
    \/ \E w \in DOMAIN load.workers : WorkerPanics(w)
    \/ TimerFires
    \/ SelectTimeout
    \/ \E w \in DOMAIN load.workers : SelectNext(w)
    \/ SelectNone

SpecLoad == InitLoad /\ [][NextLoad]_allVars

\* the runtime polls generate_load when it is woken, and time passes
SpecLoadFair ==
    /\ SpecLoad
    /\ WF_allVars(SpawnWorkers)
    /\ WF_allVars(TimerFires)
    /\ WF_allVars(SelectTimeout)
    /\ WF_allVars(\E w \in DOMAIN load.workers : SelectNext(w))
    /\ WF_allVars(SelectNone)

---------------------------------------------------------------------------
(* Claims about the load generation.                                       *)

LoadReturned == load.pc = "returned"

TimerFired == load.timer = "fired"

\* every worker task has finished
AllWorkersFinished ==
    load.pc # "spawn" /\ \A w \in DOMAIN load.workers : load.workers[w] # "running"

\* C17: the wait loop of generate_load always terminates. It exits once the
\* test-duration timer has fired or every worker task has finished, and for
\* no other reason: a worker that panicked does not end the loop while another
\* worker runs and the timer has not fired, and generate_load returns Ok(())
\* whatever the workers did.
C17_WaitLoopTerminates ==
    /\ <>LoadReturned
    /\ (TimerFired \/ AllWorkersFinished) ~> LoadReturned
    /\ [](LoadReturned =>
             /\ load.ret = Ok(<<>>)
             /\ TimerFired \/ AllWorkersFinished
             /\ load.exit = "timeout" => TimerFired
             /\ load.exit = "workers" => AllWorkersFinished)

\* generate_load returned Ok(()) before the timer fired, one worker having
\* panicked and another having returned
C17_Witness ==
    /\ LoadReturned
    /\ load.ret = Ok(<<>>)
    /\ ~TimerFired
    /\ load.exit = "workers"
    /\ \E w \in DOMAIN load.workers : load.workers[w] = "panic"
    /\ \E w \in DOMAIN load.workers : load.workers[w] = "ok"

---------------------------------------------------------------------------
(* One performance run (performance/runner.rs, performance/monitor.rs).    *)
(*                                                                         *)
(* run_performance_test, the reporting task and the workers are tasks of   *)
(* a multi-threaded runtime: they run in parallel and meet at the metrics  *)
(* lock only. Time is counted in whole seconds. A sleep or an interval     *)
(* tick never ends before its deadline. A task that can run does so within *)
(* the second: the clock goes on when every task waits, for a deadline,    *)
(* for the lock or for the network. A request takes any time.              *)

\* the time at which the modelled run is cut off
MaxTime == 5

\* the largest number of requests the workers of a modelled run start
MaxIterations == 2

\* `sleep(Duration::from_secs(2))` before the final snapshot
FinalPause == 2

\* `.unwrap_or(100)`, the bytes a request without a body is taken to send
HeaderEstimate == 100

\* the text of the modelled response body
RunBodyText == <<"o", "k">>

\* --pattern
RunPatterns == {"Constant", "RampUp"}

\* --rps: absent, or one request per second
RunTargetRps == {None, Some(1)}

\* --concurrent
RunUsers == {1, 2}

\* --duration
TestDurations == {2}

\* --warmup
RunWarmups == {0, 1}

\* --report-interval
ReportIntervals == {1}

\* config.tests of the suite under load: two steps without an expectation,
\* the URL of the second being `{{u}}x`
RunTests == StepList(2, 2)

\* config.vars of the suite under load: `u: "http://h/"`
RunConfigVars == Some(<<"u">> :> <<"http://h/">>)

\* --env: not given, or the name of an environment
RunEnvs == {None, Some(<<"d", "e", "v">>)}

\* lines 213-222 of worker_task: the context of a worker holds the bindings
\* of config.vars, as they are written, when --env is given, and nothing
\* otherwise
WorkerContext(env, config_vars) ==
    IF IsSome(env) /\ IsSome(config_vars) THEN config_vars.some ELSE EmptyMap

\* `format!("worker_{}_test_{}", worker_id, current_test_index)`, worker_id
\* counting from 0
WorkerTestName(worker_id, current_test_index) ==
    <<"worker_">> \o Decimal(worker_id) \o <<"_test_">> \o Decimal(current_test_index)

\* send() failed: connection refused, timeout, DNS failure
SendErrorNet == [transport |-> "error", status |-> 0, body |-> None, order |-> <<>>]

\* a response with status 200 arrived and reading its body failed
BodyErrorNet == [transport |-> "response", status |-> 200, body |-> None, order |-> <<>>]

\* what the network does with a request of a worker
RunNets == {PassNet, FailNet, SendErrorNet, BodyErrorNet}

\* the outcomes of the requests of two workers
PairNets == {PassNet, SendErrorNet}

\* test_result.duration, the time execute_test measures, in milliseconds
RunResponseTimes == {1}

\* the tasks that take the metrics lock
RunnerTask == <<"runner", 0>>

MonitorTask == <<"monitor", 0>>

WorkerTask(w) == <<"worker", w>>

\* the holder of a lock that is free
Nobody == <<"nobody", 0>>

\* `Arc::new(Mutex::new(..))`
NewLock == [holder |-> Nobody, waiters |-> <<>>]

\* a lock() that does not wait for the holder
AcquireUnguarded(l, who) == [l EXCEPT !.holder = who]

\* `metrics.lock().await`: the lock is taken when it is free; otherwise the
\* task joins the queue of the fair mutex
Acquire(l, who) ==
    IF l.holder = Nobody THEN [l EXCEPT !.holder = who]
    ELSE [l EXCEPT !.waiters = Append(@, who)]

\* a guard that is not dropped where its scope ends
ReleaseKept(l) == l

\* the guard is dropped: the lock passes to the first waiter, if there is one
Release(l) ==
    IF l.waiters = <<>> THEN [l EXCEPT !.holder = Nobody]
    ELSE [holder |-> Head(l.waiters), waiters |-> Tail(l.waiters)]

\* a rule that takes every failed result for a connection error
IsConnectionErrorAnyFailure(is_error, status_code) == is_error

\* `is_error && status_code == 0`
IsConnectionError(is_error, status_code) == is_error /\ status_code = 0

\* `.map(|b| b.len() as u64).unwrap_or(0)` on test_result.response_body
BytesReceivedOf(response_body) ==
    IF IsSome(response_body) THEN Len(RunBodyText) ELSE 0

\* lines 247-278 of worker_task: the call on the metrics that records
\* test_result; `result` and `worker` keep what was recorded and by whom
CallOf(w, test_result, response_time) ==
    IF IsConnectionError(~test_result.passed,
                         UnwrapOr(test_result.response_status, 0))
    THEN [op |-> "record_connection_error", response_time |-> 0, status_code |-> 0,
          bytes_sent |-> 0, bytes_received |-> 0, is_error |-> TRUE,
          result |-> [passed |-> test_result.passed,
                      response_status |-> test_result.response_status],
          worker |-> w]
    ELSE [op |-> "record_request", response_time |-> response_time,
          status_code |-> UnwrapOr(test_result.response_status, 0),
          bytes_sent |-> HeaderEstimate,
          bytes_received |-> BytesReceivedOf(test_result.response_body),
          is_error |-> ~test_result.passed,
          result |-> [passed |-> test_result.passed,
                      response_status |-> test_result.response_status],
          worker |-> w]

\* the call `call` on the metrics, as a whole
Record(m, call) ==
    IF call.op = "record_connection_error" THEN record_connection_error(m)
    ELSE record_request(m, call.response_time, call.status_code, call.bytes_sent,
                        call.bytes_received, call.is_error)

\* the first statements of the call: line 61, or lines 48-51
RecordFirst(m, call) ==
    IF call.op = "record_connection_error"
    THEN [m EXCEPT !.connection_errors = @ + 1]
    ELSE [m EXCEPT !.response_times = Append(@, call.response_time),
                   !.request_count = @ + 1,
                   !.bytes_sent = @ + call.bytes_sent,
                   !.bytes_received = @ + call.bytes_received]

\* the statements that follow: line 62, or lines 53-57
RecordRest(m, call) ==
    IF call.op = "record_connection_error"
    THEN [m EXCEPT !.error_count = @ + 1]
    ELSE [m EXCEPT !.status_codes = CountStatus(@, call.status_code),
                   !.error_count = IF call.is_error THEN @ + 1 ELSE @]

\* a sleep of `delay` that starts now never ends: Duration::from_millis of
\* u64::MAX milliseconds
Never == MaxTime + MaxTime

\* the deadline of `sleep(delay)` and of `sleep(Duration::from_millis(1))`
\* after it, both started at `now`: the whole seconds of the delay
SleepUntil(now, delay) ==
    IF ~IsSome(delay) THEN now
    ELSE IF delay.some.saturated THEN Never
    ELSE now + (delay.some.millis \div MillisPerSecond)

\* a warmup that is not waited for
WarmupUntilNow(now, warmup_duration) == now

\* the deadline of `sleep(self.warmup_duration)`
WarmupUntil(now, warmup_duration) == now + warmup_duration

\* workers that are aborted when generate_load returns
AfterStopAborted(tasks) ==
    [w \in DOMAIN tasks |->
        IF tasks[w].pc = "done" THEN tasks[w] ELSE [tasks[w] EXCEPT !.pc = "aborted"]]

\* generate_load returns and drops the JoinHandles of the workers: a task
\* whose JoinHandle is dropped is detached, and runs on
AfterStop(tasks) == tasks

\* the requests the workers have started
IterationsStarted ==
    Len(metrics.calls)
        + Cardinality({w \in DOMAIN wtask :
                          wtask[w].pc \in {"request", "locking", "recording"}})

\* a worker_task that was spawned and has not run yet: `index` is
\* current_test_index, `step` the index of the test whose request is under
\* way, and `rounds` counts the results execute_test has returned
SpawnedWorker ==
    [pc |-> "spawned", start |-> 0, index |-> 0, step |-> 0, until |-> 0,
     call |-> None, delay |-> None, rounds |-> 0]

\* PerformanceMonitor::new
NewMonitor(now) ==
    [pc |-> "spawned", start_time |-> now, last_report |-> now, next_tick |-> 0,
     wakes |-> 0, reports |-> 0, elapsed |-> 0, seen |-> None]

\* PerformanceTestRunner::new: a runner, in a build with or without overflow
\* checks
InitPerfRun ==
    /\ vars = EmptyMap
    /\ penv = EmptyMap
    /\ SubstOff
    /\ ExecOff
    /\ RunnerOff
    /\ build \in [overflow_checks : BOOLEAN]
    /\ metrics = None
    /\ perfResults = None
    /\ controller = None
    /\ load = None
    /\ clock = 0
    /\ prun \in [concurrent_users : RunUsers,
                 target_rps : RunTargetRps,
                 test_duration : TestDurations,
                 warmup_duration : RunWarmups,
                 report_interval : ReportIntervals,
                 load_pattern : RunPatterns,
                 env : RunEnvs,
                 pc : {"start"},
                 until : {0},
                 test_start : {0},
                 exit : {"none"},
                 snapshot : {None}]
    /\ lock = None
    /\ monitor = None
    /\ wtask = <<>>

\* run_performance_test, lines 80-103: the metrics behind their lock, the
\* load controller, the monitor and its task; then the warmup sleep begins
RunSetup ==
    /\ prun.pc = "start"
    /\ metrics' = [state |-> NewMetrics, calls |-> NoCalls, start_time |-> clock]
    /\ lock' = NewLock
    /\ controller' = [c |-> NewController(prun.load_pattern, prun.target_rps,
                                          prun.concurrent_users, prun.warmup_duration),
                      test_start |-> clock]
    /\ monitor' = NewMonitor(clock)
    /\ prun' = IF prun.warmup_duration > 0
               THEN [prun EXCEPT !.pc = "warmup",
                                 !.until = WarmupUntil(clock, prun.warmup_duration)]
               ELSE [prun EXCEPT !.pc = "ready"]
    /\ UNCHANGED <<substVars, execVars, runnerVars, build, perfResults, load, clock,
                   wtask>>

\* the warmup sleep is over
RunWarmupEnd ==
    /\ prun.pc = "warmup"
    /\ clock >= prun.until
    /\ prun' = [prun EXCEPT !.pc = "ready"]
    /\ UNCHANGED <<substVars, execVars, runnerVars, build, metrics, perfResults,
                   controller, load, clock, lock, monitor, wtask>>

\* lines 108-118 and generate_load, lines 142-170: the workers are spawned
\* and the sleep of the wait loop begins
RunGenerateLoad ==
    /\ prun.pc = "ready"
    /\ wtask' = [w \in 1..prun.concurrent_users |-> SpawnedWorker]
    /\ prun' = [prun EXCEPT !.pc = "select",
                            !.test_start = clock,
                            !.until = clock + prun.test_duration]
    /\ UNCHANGED <<substVars, execVars, runnerVars, build, metrics, perfResults,
                   controller, load, clock, lock, monitor>>

\* the wait loop is left, generate_load returns Ok(()) and the pause of
\* line 121 begins
RunStop(exit) ==
    /\ prun' = [prun EXCEPT !.pc = "pause", !.exit = exit,
                            !.until = clock + FinalPause]
    /\ wtask' = AfterStop(wtask)
    /\ UNCHANGED <<substVars, execVars, runnerVars, build, metrics, perfResults,
                   controller, load, clock, lock, monitor>>

\* the wait loop, lines 174-177: the sleep of test_duration is over
RunTimeout ==
    /\ prun.pc = "select"
    /\ clock >= prun.until
    /\ RunStop("timeout")

\* the wait loop, lines 178-192: every worker has returned and
\* `futures.next()` has yielded each of them, then None
RunWorkersDone ==
    /\ prun.pc = "select"
    /\ \A w \in DOMAIN wtask : wtask[w].pc = "done"
    /\ RunStop("workers")

\* line 124: the pause is over, `metrics.lock().await`
RunPauseEnd ==
    /\ prun.pc = "pause"
    /\ clock >= prun.until
    /\ lock' = Acquire(lock, RunnerTask)
    /\ prun' = [prun EXCEPT !.pc = "locking"]
    /\ UNCHANGED <<substVars, execVars, runnerVars, build, metrics, perfResults,
                   controller, load, clock, monitor, wtask>>

\* lines 125-131: the final snapshot is computed under the lock and
\* returned; the guard is dropped when run_performance_test returns or
\* unwinds
RunFinalSnapshot ==
    /\ prun.pc = "locking"
    /\ lock.holder = RunnerTask
    /\ perfResults' = calculate_results(metrics.state, clock - metrics.start_time,
                                        build.overflow_checks)
    /\ prun' = [prun EXCEPT
                   !.pc = IF perfResults' = Panicked THEN "panicked" ELSE "returned",
                   !.snapshot = Some([at |-> clock, calls |-> Len(metrics.calls)])]
    /\ lock' = Release(lock)
    /\ UNCHANGED <<substVars, execVars, runnerVars, build, metrics, controller, load,
                   clock, monitor, wtask>>

\* the reporting task runs for the first time: `interval(report_interval)`,
\* and the first tick, which completes at once
MonitorStart ==
    /\ monitor # None
    /\ monitor.pc = "spawned"
    /\ monitor' = [monitor EXCEPT !.pc = "sleep",
                                  !.next_tick = clock + prun.report_interval]
    /\ UNCHANGED <<substVars, execVars, runnerVars, build, metrics, perfResults,
                   controller, load, clock, prun, lock, wtask>>

\* `interval.tick().await` completes, the next tick being due one period
\* after this one was; then `metrics.lock().await`
MonitorWake ==
    /\ monitor # None
    /\ monitor.pc = "sleep"
    /\ clock >= monitor.next_tick
    /\ monitor' = [monitor EXCEPT !.pc = "locking",
                                  !.wakes = @ + 1,
                                  !.next_tick = @ + prun.report_interval]
    /\ lock' = Acquire(lock, MonitorTask)
    /\ UNCHANGED <<substVars, execVars, runnerVars, build, metrics, perfResults,
                   controller, load, clock, prun, wtask>>

\* PerformanceMonitor::should_report: `last_report.elapsed() >=
\* report_interval` on Instants, of which `now` and last_report are the
\* whole units. last_report is the moment the monitor was built, before the
\* interval started, or the end of the last report, some time after the
\* tick that woke it. When the units are just report_interval apart after a
\* report, the Instants are less than that apart when this call comes
\* sooner after its unit than the last report ended after its own
should_report(m, now, report_interval, sooner) ==
    IF m.reports > 0 /\ now - m.last_report = report_interval THEN ~sooner
    ELSE now - m.last_report >= report_interval

\* print_progress_report on the metrics m: nothing when should_report is
\* false, a panic when calculate_results panics, else the report is printed
\* (`seen` keeps what it was computed from) and last_report is set
print_progress_report(mon, m, now, report_interval, overflow_checks, sooner) ==
    IF ~should_report(mon, now, report_interval, sooner) THEN mon
    ELSE IF calculate_results(m.state, now - m.start_time, overflow_checks) = Panicked
         THEN [mon EXCEPT !.pc = "panicked"]
    ELSE [mon EXCEPT !.reports = @ + 1,
                     !.last_report = now,
                     !.seen = Some([total_requests |->
                                       calculate_results(m.state, now - m.start_time,
                                                         overflow_checks).some.total_requests,
                                    calls |-> Len(m.calls)])]

\* lines 223-226 of the reporting loop: `break` once the time since the
\* monitor was created has reached target_duration
AfterReport(mon, now, target_duration) ==
    IF mon.pc = "panicked" THEN mon
    ELSE [mon EXCEPT !.elapsed = now - mon.start_time,
                     !.pc = IF now - mon.start_time >= target_duration
                            THEN "stopped" ELSE "sleep"]

\* lines 220-227: the reporting task holds the lock, reports, and drops the
\* guard where the loop body ends or the panic unwinds
MonitorReport(sooner) ==
    /\ monitor # None
    /\ monitor.pc = "locking"
    /\ lock.holder = MonitorTask
    /\ monitor' = AfterReport(print_progress_report(monitor, metrics, clock,
                                                    prun.report_interval,
                                                    build.overflow_checks, sooner),
                              clock, prun.test_duration)
    /\ lock' = Release(lock)
    /\ UNCHANGED <<substVars, execVars, runnerVars, build, metrics, perfResults,
                   controller, load, clock, prun, wtask>>

\* `while worker_start.elapsed() < total_duration`, and lines 232-245 when it
\* holds: the test at current_test_index is taken, the index moves on and
\* the request is sent
LoopCheck(t, now, total_duration) ==
    IF now - t.start < total_duration
    THEN [t EXCEPT !.pc = "request",
                   !.step = t.index,
                   !.index = (t.index + 1) % Len(RunTests)]
    ELSE [t EXCEPT !.pc = "done"]

\* the loop of worker w goes on to its next round
WorkerLoop(w, t) ==
    /\ (clock - t.start < prun.test_duration) => IterationsStarted < MaxIterations
    /\ wtask' = [wtask EXCEPT ![w] = LoopCheck(t, clock, prun.test_duration)]
    /\ UNCHANGED <<substVars, execVars, runnerVars, build, metrics, perfResults,
                   controller, load, clock, prun, lock, monitor>>

\* worker_task runs for the first time, lines 213-230
WorkerStart(w) ==
    /\ wtask[w].pc = "spawned"
    /\ WorkerLoop(w, [wtask[w] EXCEPT !.start = clock])

\* lines 238-266: execute_test returns, and `metrics.lock().await`
WorkerResponse(w, net, response_time) ==
    /\ wtask[w].pc = "request"
    /\ wtask' = [wtask EXCEPT
                    ![w].pc = "locking",
                    ![w].rounds = @ + 1,
                    ![w].call =
                        CallOf(w, execute_test(WorkerTestName(w - 1, wtask[w].index),
                                               RunTests[wtask[w].step + 1].request,
                                               RunTests[wtask[w].step + 1].expect,
                                               WorkerContext(prun.env, RunConfigVars),
                                               penv, net),
                               response_time)]
    /\ lock' = Acquire(lock, WorkerTask(w))
    /\ UNCHANGED <<substVars, execVars, runnerVars, build, metrics, perfResults,
                   controller, load, clock, prun, monitor>>

\* the worker holds the lock: the first statements of the record call
WorkerRecordFirst(w) ==
    /\ wtask[w].pc = "locking"
    /\ lock.holder = WorkerTask(w)
    /\ metrics' = [metrics EXCEPT !.state = RecordFirst(@, wtask[w].call)]
    /\ wtask' = [wtask EXCEPT ![w].pc = "recording"]
    /\ UNCHANGED <<substVars, execVars, runnerVars, build, perfResults, controller,
                   load, clock, prun, lock, monitor>>

\* lines 278-287: the record call ends, the guard is dropped with its block,
\* and the two sleeps begin, the first as long as request_delay says. The
\* tenfold of the RunUsers of a modelled run is a u32, so the call returns
WorkerRecordRest(w) ==
    /\ wtask[w].pc = "recording"
    /\ metrics' = [metrics EXCEPT !.state = RecordRest(@, wtask[w].call),
                                  !.calls = Append(@, wtask[w].call)]
    /\ lock' = Release(lock)
    /\ wtask' = [wtask EXCEPT
                    ![w].pc = "sleep",
                    ![w].call = None,
                    ![w].delay = Some(request_delay(controller.c,
                                                    clock - controller.test_start,
                                                    build.overflow_checks)),
                    ![w].until = SleepUntil(clock,
                                            request_delay(controller.c,
                                                          clock - controller.test_start,
                                                          build.overflow_checks))]
    /\ UNCHANGED <<substVars, execVars, runnerVars, build, perfResults, controller,
                   load, clock, prun, monitor>>

\* line 287: the sleeps are over
WorkerSleepEnd(w) ==
    /\ wtask[w].pc = "sleep"
    /\ clock >= wtask[w].until
    /\ WorkerLoop(w, wtask[w])

\* a step of a task that can run
Runnable ==
    \/ RunSetup
    \/ RunWarmupEnd
    \/ RunGenerateLoad
    \/ RunTimeout
    \/ RunWorkersDone
    \/ RunPauseEnd
    \/ RunFinalSnapshot
    \/ MonitorStart
    \/ MonitorWake
    \/ \E sooner \in BOOLEAN : MonitorReport(sooner)
    \/ \E w \in DOMAIN wtask : WorkerStart(w)
    \/ \E w \in DOMAIN wtask : WorkerRecordFirst(w)
    \/ \E w \in DOMAIN wtask : WorkerRecordRest(w)
    \/ \E w \in DOMAIN wtask : WorkerSleepEnd(w)

\* a second passes
Tick ==
    /\ ~ENABLED Runnable
    /\ clock < MaxTime
    /\ clock' = clock + 1
    /\ UNCHANGED <<substVars, execVars, runnerVars, build, metrics, perfResults,
                   controller, load, prun, lock, monitor, wtask>>

\* a step of the run other than a response
RunStep ==
    \/ Tick
    \/ RunSetup
    \/ RunWarmupEnd
    \/ RunGenerateLoad
    \/ RunTimeout
    \/ RunWorkersDone
    \/ RunPauseEnd
    \/ RunFinalSnapshot
    \/ MonitorStart
    \/ MonitorWake
    \/ \E sooner \in BOOLEAN : MonitorReport(sooner)
    \/ \E w \in DOMAIN wtask : WorkerStart(w)
    \/ \E w \in DOMAIN wtask : WorkerRecordFirst(w)
    \/ \E w \in DOMAIN wtask : WorkerRecordRest(w)
    \/ \E w \in DOMAIN wtask : WorkerSleepEnd(w)

NextPerfRun ==
    \/ RunStep
    \/ \E w \in DOMAIN wtask : \E net \in RunNets : \E response_time \in RunResponseTimes :
          WorkerResponse(w, net, response_time)

NextPerfPair ==
    \/ RunStep
    \/ \E w \in DOMAIN wtask : \E net \in PairNets : \E response_time \in RunResponseTimes :
          WorkerResponse(w, net, response_time)

\* a run of one worker
InitPerfSolo ==
    /\ InitPerfRun
    /\ prun.concurrent_users = 1

SpecPerfSolo == InitPerfSolo /\ [][NextPerfRun]_allVars

\* a run of two workers with a fixed configuration
InitPerfPair ==
    /\ InitPerfRun
    /\ prun.concurrent_users = 2
    /\ prun.target_rps = None
    /\ prun.test_duration = 2
    /\ prun.warmup_duration = 1
    /\ prun.report_interval = 1
    /\ prun.load_pattern = "Constant"
    /\ prun.env = None

SpecPerfPair == InitPerfPair /\ [][NextPerfPair]_allVars

\* C22: every mutation of the metrics happens under the one lock. A record
\* call that is half done belongs to the worker that holds the lock; when
\* the lock is free, request_count + connection_errors is the number of
\* record calls that are complete; and a snapshot, for a progress report or
\* for the final results, counts whole record calls only: its
\* total_requests is the number of record calls complete when it was taken.
C22_MutationOnlyUnderLock ==
    (metrics # None /\ lock # None) =>
        /\ \A w \in DOMAIN wtask :
              wtask[w].pc = "recording" => lock.holder = WorkerTask(w)
        /\ lock.holder = Nobody =>
              metrics.state.request_count + metrics.state.connection_errors
                  = Len(metrics.calls)
        /\ IsSome(monitor.seen) =>
              monitor.seen.some.total_requests
                  = monitor.seen.some.calls
        /\ (IsSome(prun.snapshot) /\ perfResults # Panicked) =>
              perfResults.some.total_requests
                  = prun.snapshot.some.calls

\* both workers have recorded, a progress report has seen a record, and the
\* lock is free again
C22_Witness ==
    /\ metrics # None
    /\ lock # None
    /\ lock.holder = Nobody
    /\ Len(metrics.calls) >= 2
    /\ metrics.calls[1].worker # metrics.calls[2].worker
    /\ IsSome(monitor.seen)
    /\ monitor.seen.some.calls >= 1

\* the tasks of a run that take the metrics lock
LockTasks == {RunnerTask, MonitorTask} \cup {WorkerTask(w) : w \in RunUsers}

\* task `who` has called `metrics.lock().await` and has not dropped the
\* guard since
AtLock(who) ==
    IF who = RunnerTask THEN prun.pc = "locking"
    ELSE IF who = MonitorTask THEN monitor # None /\ monitor.pc = "locking"
    ELSE /\ who[2] \in DOMAIN wtask
         /\ wtask[who[2]].pc \in {"locking", "recording"}

\* the lock is in the hands of task `who`
Holds(who) == lock # None /\ lock.holder = who

\* the tasks are polled: a task that holds the lock and can run does run
FairPerfRun ==
    /\ WF_allVars(RunFinalSnapshot)
    /\ WF_allVars(\E sooner \in BOOLEAN : MonitorReport(sooner))
    /\ \A w \in RunUsers : WF_allVars(w \in DOMAIN wtask /\ WorkerRecordFirst(w))
    /\ \A w \in RunUsers : WF_allVars(w \in DOMAIN wtask /\ WorkerRecordRest(w))

\* the run of two workers, its tasks being polled
SpecPerfPairFair == SpecPerfPair /\ FairPerfRun

\* C30: the holder of the metrics lock is never at a suspension point other
\* than the lock itself (it is between its lock() and the end of the guard's
\* scope, not in a request, a sleep or a tick), and a task that waits for
\* the lock gets it.
C30_LockNeverHeldAcrossAwait ==
    /\ [](\A who \in LockTasks : Holds(who) => AtLock(who))
    /\ \A who \in LockTasks : (AtLock(who) ~> Holds(who))

\* both workers and the reporting task are at the lock at once: one holds
\* it, two wait in its queue
C30_Witness ==
    /\ lock # None
    /\ Len(lock.waiters) >= 2
    /\ \E w \in DOMAIN wtask : Holds(WorkerTask(w))

\* the metrics after the record calls `calls`, made one after the other on
\* new metrics
RECURSIVE Replayed(_)
Replayed(calls) ==
    IF calls = <<>> THEN NewMetrics
    ELSE Record(Replayed(SubSeq(calls, 1, Len(calls) - 1)), calls[Len(calls)])

\* C23: the stop of the wait loop cancels no worker: no worker task is
\* aborted when generate_load returns. The final snapshot is taken
\* FinalPause or more after the stop, and the result of the run is computed
\* from the record calls complete at that moment: a call recorded later is
\* not in it.
C23_StopCancelsNothing ==
    (prun # None /\ prun.exit # "none") =>
        /\ \A w \in DOMAIN wtask : wtask[w].pc # "aborted"
        /\ IsSome(prun.snapshot) =>
              /\ prun.snapshot.some.at >= prun.until
              /\ perfResults
                    = calculate_results(
                          Replayed(SubSeq(metrics.calls, 1, prun.snapshot.some.calls)),
                          prun.snapshot.some.at - metrics.start_time,
                          build.overflow_checks)

\* the run has returned after the timer stopped it, and its worker has
\* recorded an outcome since the snapshot was taken
C23_Witness ==
    /\ prun # None
    /\ prun.exit = "timeout"
    /\ prun.pc = "returned"
    /\ Len(metrics.calls) > prun.snapshot.some.calls
    /\ perfResults.some.total_requests = prun.snapshot.some.calls

\* the calls among `calls` that are `op`
CallsOf(calls, op) == Cardinality({i \in DOMAIN calls : calls[i].op = op})

\* C24: each round of a worker's loop records one outcome. The outcome is a
\* connection error exactly when the result has failed and carries no
\* response status; otherwise it is one record_request with the status of
\* the result and is_error = not passed. A connection error adds no
\* response-time sample and no histogram entry: with no record call under
\* way, the samples and the histogram count the record_request calls and
\* connection_errors counts the others.
C24_OneOutcomePerIteration ==
    (metrics # None /\ lock # None) =>
        /\ \A w \in DOMAIN wtask :
              wtask[w].rounds
                  = CallsOf(SelectSeq(metrics.calls, LAMBDA c : c.worker = w),
                            "record_request")
                    + CallsOf(SelectSeq(metrics.calls, LAMBDA c : c.worker = w),
                              "record_connection_error")
                    + (IF wtask[w].pc \in {"locking", "recording"} THEN 1 ELSE 0)
        /\ \A i \in DOMAIN metrics.calls :
              /\ metrics.calls[i].op = "record_connection_error"
                    <=> (/\ ~metrics.calls[i].result.passed
                         /\ ~IsSome(metrics.calls[i].result.response_status))
              /\ metrics.calls[i].op = "record_request" =>
                    /\ IsSome(metrics.calls[i].result.response_status) =>
                          metrics.calls[i].status_code
                              = metrics.calls[i].result.response_status.some
                    /\ metrics.calls[i].is_error = ~metrics.calls[i].result.passed
        /\ lock.holder = Nobody =>
              /\ Len(metrics.state.response_times)
                    = CallsOf(metrics.calls, "record_request")
              /\ HistogramTotal(metrics.state.status_codes)
                    = CallsOf(metrics.calls, "record_request")
              /\ metrics.state.connection_errors
                    = CallsOf(metrics.calls, "record_connection_error")

\* a worker has finished two rounds: a request that could not be sent is
\* in the metrics as a connection error, a response that failed its
\* expectation as a request in error
C24_Witness ==
    /\ metrics # None
    /\ lock # None
    /\ lock.holder = Nobody
    /\ \E i, j \in DOMAIN metrics.calls :
          /\ metrics.calls[i].op = "record_connection_error"
          /\ metrics.calls[j].op = "record_request"
          /\ metrics.calls[j].is_error
          /\ metrics.calls[j].worker = metrics.calls[i].worker

\* the delay a controller of base rate gives: request_delay when
\* current_target_rps is base_rps
BaseDelay(c) ==
    request_delay([c EXCEPT !.pattern = "Constant"], 0, build.overflow_checks)

\* C29: in a run with the RampUp pattern the workers are spawned a full
\* warmup_duration or more after the load controller was built, so the
\* controller is past its ramp whenever a worker can ask it: its target
\* rate is the base rate, and every delay a worker has obtained is the
\* delay of the base rate.
C29_WorkersStartAfterRamp ==
    (prun # None /\ prun.load_pattern = "RampUp" /\ wtask # <<>>) =>
        /\ prun.test_start - controller.test_start >= prun.warmup_duration
        /\ current_target_rps(controller.c, clock - controller.test_start,
                              build.overflow_checks)
              = F64Of(BaseRps(controller.c))
        /\ \A w \in DOMAIN wtask :
              IsSome(wtask[w].delay) => wtask[w].delay.some = BaseDelay(controller.c)

\* a RampUp run with a warmup and a target rate: the worker has recorded
\* a result and waits the delay the controller gave it
C29_Witness ==
    /\ prun # None
    /\ prun.load_pattern = "RampUp"
    /\ prun.warmup_duration > 0
    /\ IsSome(prun.target_rps)
    /\ \E w \in DOMAIN wtask :
          /\ wtask[w].pc = "sleep"
          /\ IsSome(wtask[w].delay)
          /\ IsSome(wtask[w].delay.some)

(***************************************************************************)
(* The reporting task alone (monitor.rs, start_background_monitoring).     *)
(* What it prints depends on when it runs, so here the clock counts units  *)
(* of which a report interval has several, and any step of the task can    *)
(* come late: the clock goes on whatever the task is about to do. The      *)
(* workers are a step that records an outcome while the lock is free.      *)
(***************************************************************************)

\* the last unit of the clock
MaxMonitorTime == 7

\* report_interval and test_duration, in units of the clock
MonitorIntervals == {2, 3}

MonitorDurations == {4, 5}

\* what the workers record
MonitorCalls ==
    {CallOf(1, [passed |-> FALSE, response_status |-> None, response_body |-> None], 1),
     CallOf(1, [passed |-> FALSE, response_status |-> Some(500),
                response_body |-> Some(RunBodyText)], 1)}

\* run_performance_test after line 97: the monitor is built and its task
\* spawned
InitMonitor ==
    /\ vars = EmptyMap
    /\ penv = EmptyMap
    /\ SubstOff
    /\ ExecOff
    /\ RunnerOff
    /\ build \in [overflow_checks : BOOLEAN]
    /\ metrics = [state |-> NewMetrics, calls |-> NoCalls, start_time |-> 0]
    /\ perfResults = None
    /\ controller = None
    /\ load = None
    /\ clock = 0
    /\ prun \in [concurrent_users : {1},
                 target_rps : {None},
                 test_duration : MonitorDurations,
                 warmup_duration : {0},
                 report_interval : MonitorIntervals,
                 load_pattern : {"Constant"},
                 env : {None},
                 pc : {"monitoring"},
                 until : {0},
                 test_start : {0},
                 exit : {"none"},
                 snapshot : {None}]
    /\ lock = NewLock
    /\ monitor = NewMonitor(0)
    /\ wtask = <<>>

\* a unit of time passes while the reporting task lives
MonitorTick ==
    /\ monitor.pc \notin {"stopped", "panicked"}
    /\ clock < MaxMonitorTime
    /\ clock' = clock + 1
    /\ UNCHANGED <<substVars, execVars, runnerVars, build, metrics, perfResults,
                   controller, load, prun, lock, monitor, wtask>>

\* a worker records an outcome under the lock
MonitorRecord(call) ==
    /\ lock.holder = Nobody
    /\ Len(metrics.calls) < MaxIterations
    /\ metrics' = [metrics EXCEPT !.state = Record(@, call),
                                  !.calls = Append(@, call)]
    /\ UNCHANGED <<substVars, execVars, runnerVars, build, perfResults, controller,
                   load, clock, prun, lock, monitor, wtask>>

NextMonitor ==
    \/ MonitorTick
    \/ MonitorStart
    \/ MonitorWake
    \/ \E sooner \in BOOLEAN : MonitorReport(sooner)
    \/ \E call \in MonitorCalls : MonitorRecord(call)

SpecMonitor == InitMonitor /\ [][NextMonitor]_allVars

\* C25: the reporting task wakes once every report_interval and prints a
\* progress snapshot on every wake: whenever the task is between two
\* rounds of its loop or has left the loop, it has printed as many reports
\* as it has woken. It leaves the loop after the first wake at which the
\* time since the monitor was built has reached the test duration.
C25_ReportOnEveryWake ==
    (monitor # None /\ monitor.pc \in {"sleep", "stopped"}) =>
        /\ monitor.reports = monitor.wakes
        /\ monitor.pc = "stopped" => monitor.elapsed >= prun.test_duration
        /\ (monitor.pc = "sleep" /\ monitor.wakes > 0) =>
              monitor.elapsed < prun.test_duration

\* the reporting task has woken twice on time and printed once: the second
\* wake came less than a report interval after the first report was printed
C25_WakeWithoutReport ==
    /\ monitor # None
    /\ monitor.pc \in {"sleep", "stopped"}
    /\ monitor.wakes = 2
    /\ monitor.reports = 1
    /\ monitor.next_tick = 3 * prun.report_interval
    /\ clock = 2 * prun.report_interval
====
